---- MODULE Spec2Model ----
(***************************************************************************)
(* Model of the benchmark-result normalization and best-value selection    *)
(* of the data-visualization scripts:                                      *)
(*   analyze_compression.py  extract_data, generate_summary_table          *)
(*   visualize.py            extract_data, sort_data_by_level,             *)
(*                           create_overview_table                         *)
(*   visualize_json.py       process_data, create_html_summary             *)
(*   visualize_sample.py     extract_data                                  *)
(*                                                                         *)
(* Numbers.  Python floats are modelled in fixed point: every number that  *)
(* the scripts hold as a float or compare with one (level keys, ratios,    *)
(* percentages, durations) is an integer count of thousandths, so 1.67 is  *)
(* 1670 and the level key 3 is 3 * Milli.  Sizes and memory (JSON          *)
(* integers that are never parsed) are plain integers.                     *)
(*                                                                         *)
(* Strings.  A string that the scripts parse (a level identifier, a        *)
(* duration, a percentage) is a sequence of one-character strings, so that *)
(* int(), float() and str.split(':') are computed character by character.  *)
(***************************************************************************)
EXTENDS Integers, Sequences, FiniteSets, TLC

\* 0.001, the resolution of the fixed-point numbers (1 unit = 0.001).
Milli == 1000

(***************************************************************************)
(* Python's int() and float() on the alphabet of digits, '.', ':' and 'x'  *)
(***************************************************************************)
Digits == {"0", "1", "2", "3", "4", "5", "6", "7", "8", "9"}

DigitVal(c) ==
    CASE c = "0" -> 0 [] c = "1" -> 1 [] c = "2" -> 2 [] c = "3" -> 3
      [] c = "4" -> 4 [] c = "5" -> 5 [] c = "6" -> 6 [] c = "7" -> 7
      [] c = "8" -> 8 [] c = "9" -> 9

RECURSIVE DecValue(_)
\* The value of a sequence of digits read as a decimal numeral.
DecValue(s) ==
    IF s = <<>> THEN 0
    ELSE 10 * DecValue(SubSeq(s, 1, Len(s) - 1)) + DigitVal(s[Len(s)])

\* s without a leading sign.
Unsigned(s) == IF Len(s) > 0 /\ s[1] = "-" THEN SubSeq(s, 2, Len(s)) ELSE s

Sign(s) == IF Len(s) > 0 /\ s[1] = "-" THEN -1 ELSE 1

\* int(s) does not raise ValueError: an optional '-' and a non-empty run of
\* digits.
IntOk(s) ==
    LET u == Unsigned(s)
    IN  Len(u) > 0 /\ \A i \in 1..Len(u) : u[i] \in Digits

\* int(s), in thousandths.
IntVal(s) == Sign(s) * DecValue(Unsigned(s)) * Milli

\* The positions of '.' in s.
Dots(s) == {i \in 1..Len(s) : s[i] = "."}

\* float(s) does not raise ValueError: an optional '-', then digits with at
\* most one '.', at least one digit.
FloatOk(s) ==
    LET u == Unsigned(s)
    IN  /\ \A i \in 1..Len(u) : u[i] \in Digits \cup {"."}
        /\ Cardinality(Dots(u)) <= 1
        /\ \E i \in 1..Len(u) : u[i] \in Digits

\* Up to three fraction digits, padded with zeros to thousandths.
FracValue(f) ==
    CASE Len(f) = 0 -> 0
      [] Len(f) = 1 -> 100 * DecValue(f)
      [] Len(f) = 2 -> 10 * DecValue(f)
      [] OTHER -> DecValue(SubSeq(f, 1, 3))

\* float(s), in thousandths.
FloatVal(s) ==
    LET u == Unsigned(s)
    IN  IF Dots(u) = {} THEN Sign(s) * DecValue(u) * Milli
        ELSE LET d == CHOOSE i \in Dots(u) : TRUE
             IN  Sign(s) * (DecValue(SubSeq(u, 1, d - 1)) * Milli
                              + FracValue(SubSeq(u, d + 1, Len(u))))

(***************************************************************************)
(* parse_time (the same function in all four scripts)                      *)
(***************************************************************************)
RECURSIVE Split(_, _)
\* str.split(sep): the parts of s between the occurrences of sep.
Split(s, sep) ==
    LET at == {i \in 1..Len(s) : s[i] = sep}
    IN  IF at = {} THEN <<s>>
        ELSE LET i == CHOOSE j \in at : \A k \in at : j <= k
             IN  <<SubSeq(s, 1, i - 1)>> \o Split(SubSeq(s, i + 1, Len(s)), sep)

\* parse_time(time_str) returns (it raises ValueError when float() of a part
\* does).  The empty sequence stands for both "" and None.
parse_time_ok(time_str) ==
    LET parts == Split(time_str, ":")
    IN  \/ time_str = <<>>
        \/ Len(parts) \notin {2, 3}
        \/ \A i \in 1..Len(parts) : FloatOk(parts[i])

\* parse_time with the hours of a three-part string counted as minutes.
parse_time_hours_as_minutes(time_str) ==
    LET parts == Split(time_str, ":")
    IN  IF time_str = <<>> THEN 0
        ELSE IF Len(parts) = 2
             THEN FloatVal(parts[1]) * 60 + FloatVal(parts[2])
        ELSE IF Len(parts) = 3
             THEN FloatVal(parts[1]) * 60 + FloatVal(parts[2]) * 60
                    + FloatVal(parts[3])
        ELSE 0

\* parse_time(time_str), in thousandths of a second.
parse_time(time_str) ==
    LET parts == Split(time_str, ":")
    IN  IF time_str = <<>> THEN 0
        ELSE IF Len(parts) = 2
             THEN FloatVal(parts[1]) * 60 + FloatVal(parts[2])
        ELSE IF Len(parts) = 3
             THEN FloatVal(parts[1]) * 3600 + FloatVal(parts[2]) * 60
                    + FloatVal(parts[3])
        ELSE 0

(***************************************************************************)
(* numpy.argsort and the reordering of a list by its result                *)
(***************************************************************************)
\* The permutations of 1..n.
Perms(n) == {p \in [1..n -> 1..n] : \A i, j \in 1..n : p[i] = p[j] => i = j}

\* The index arrays that sort keys ascending.  np.argsort is called with its
\* default kind ('quicksort'), which numpy documents as not stable: among
\* equal keys the order of the indices is whatever the build produces.
SortingPerms(keys) ==
    {p \in Perms(Len(keys)) :
        \A i \in 1..(Len(keys) - 1) : keys[p[i]] <= keys[p[i + 1]]}

\* The list as it is, whatever the index array.
Unordered(lst, indices) == lst

\* [lst[i] for i in indices]
Reorder(lst, indices) == [i \in 1..Len(indices) |-> lst[indices[i]]]

\* The index array of sorted(..., key=...): Python's sort is stable, equal
\* keys keep their order.
sorted_indices(keys) ==
    CHOOSE p \in SortingPerms(keys) :
        \A i, j \in 1..Len(keys) :
            (i < j /\ keys[p[i]] = keys[p[j]]) => p[i] < p[j]

IsAscending(keys) == \A i \in 1..(Len(keys) - 1) : keys[i] <= keys[i + 1]

(***************************************************************************)
(* Python values                                                           *)
(***************************************************************************)
\* None and a set value of an optional field such as 'original_size'.
None == <<>>
Some(v) == <<v>>

\* {} and d[k] = v on a dict (insertion order is not modelled).
EmptyDict == [k \in {} |-> {}]

\* d.get(k): None when the key is missing.
Get(d, k) == IF k \in DOMAIN d THEN Some(d[k]) ELSE None

\* d.get(k, {})
GetDict(d, k) == IF k \in DOMAIN d THEN d[k] ELSE EmptyDict
Put(d, k, v) == [x \in (DOMAIN d) \cup {k} |-> IF x = k THEN v ELSE d[x]]

(***************************************************************************)
(* The input: the parsed JSON document, walked in document order.          *)
(***************************************************************************)
\* Bounds of the input walk.
MaxEntries == 2
MaxRecords == 2

Files == {"fileA"}
Algorithms == {"zstd", "gz"}

\* Level identifiers (keys of a 'levels' mapping): "1", "3", "1.5", "x".
LevelIds == {<<"1">>, <<"3">>, <<"1", ".", "5">>, <<"x">>}

OriginalSizes == {1000, 2000}

\* A level record with the given compression.originalSize.
LevelRecord(size, csize, ratio, pct, creal, cmax, dreal, dmax) ==
    [compression |->
        [originalSize |-> size, compressedSize |-> csize,
         compressionRatio |-> ratio, compressedPercentage |-> pct,
         real |-> creal, max |-> cmax],
     decompression |-> [real |-> dreal, max |-> dmax]]

\* The level records of the walk: ratio 1.67 in "0:01" and ratio 2.5 in
\* "0:02", each with either original size.
LevelRecords ==
    UNION {{LevelRecord(o, 600, 1670, <<"6", "0", ".", "0">>,
                        <<"0", ":", "0", "1">>, 500,
                        <<"0", ":", "0", "0", ".", "1">>, 100),
            LevelRecord(o, 400, 2500, <<"4", "0", ".", "0">>,
                        <<"0", ":", "0", "2">>, 600,
                        <<"0", ":", "0", "0", ".", "2">>, 120)} :
           o \in OriginalSizes}

(***************************************************************************)
(* The per-(file, algorithm) series of each script                         *)
(***************************************************************************)
\* analyze_compression.py, visualize.py, visualize_sample.py: a new series.
EmptySeries ==
    [compression_levels |-> <<>>, compression_ratio |-> <<>>,
     compressed_percentage |-> <<>>, compression_time |-> <<>>,
     decompression_time |-> <<>>, original_size |-> None,
     compressed_size |-> <<>>, memory_usage |-> <<>>]

\* visualize_json.py: a new series.
EmptySeriesJson ==
    [levels |-> <<>>, ratios |-> <<>>, compressed_sizes |-> <<>>,
     compression_times |-> <<>>, decompression_times |-> <<>>,
     memory_usage |-> <<>>, original_size |-> None]

\* analyze_compression.py: int(level), and float(level) on ValueError.
level_int_ok(level) == IntOk(level) \/ FloatOk(level)
level_int(level) == IF IntOk(level) THEN IntVal(level) ELSE FloatVal(level)

\* The steps of the body of a levels loop that can raise, in the order of the
\* code: a subscript metrics[sub], a subscript metrics[sub][field], a
\* conversion of the level identifier or of a field that has been read.
Sub(s) == [kind |-> "sub", sub |-> s, field |-> ""]
Field(s, k) == [kind |-> "field", sub |-> s, field |-> k]
Conversion(kind, s, k) == [kind |-> kind, sub |-> s, field |-> k]

\* What one step raises: <<>> (nothing), or the exception and, for a
\* KeyError, the missing key.
step_error(step, level, metrics) ==
    CASE step.kind = "sub" ->
           IF step.sub \in DOMAIN metrics THEN <<>>
           ELSE <<"KeyError", step.sub>>
      [] step.kind = "field" ->
           IF step.sub \notin DOMAIN metrics THEN <<"KeyError", step.sub>>
           ELSE IF step.field \notin DOMAIN metrics[step.sub]
                THEN <<"KeyError", step.field>>
           ELSE <<>>
      [] step.kind = "int" ->
           IF IntOk(level) THEN <<>> ELSE <<"ValueError", "">>
      [] step.kind = "int_or_float" ->
           IF level_int_ok(level) THEN <<>> ELSE <<"ValueError", "">>
      [] step.kind = "float" ->
           IF FloatOk(metrics[step.sub][step.field]) THEN <<>>
           ELSE <<"ValueError", "">>
      [] step.kind = "parse_time" ->
           IF parse_time_ok(metrics[step.sub][step.field]) THEN <<>>
           ELSE <<"ValueError", "">>

RECURSIVE first_error(_, _, _)
\* What the first raising step of a sequence of steps raises.
first_error(steps, level, metrics) ==
    IF steps = <<>> THEN <<>>
    ELSE IF step_error(Head(steps), level, metrics) # <<>>
         THEN step_error(Head(steps), level, metrics)
    ELSE first_error(Tail(steps), level, metrics)

\* levels[first_level]['compression']['originalSize']
original_size_steps == <<Field("compression", "originalSize")>>

\* analyze_compression.py lines 69-85
extract_steps ==
    <<Sub("compression"), Sub("decompression"),
      Conversion("int_or_float", "", ""),
      Field("compression", "compressionRatio"),
      Field("compression", "compressedPercentage"),
      Conversion("float", "compression", "compressedPercentage"),
      Field("compression", "real"),
      Conversion("parse_time", "compression", "real"),
      Field("decompression", "real"),
      Conversion("parse_time", "decompression", "real"),
      Field("compression", "compressedSize"),
      Field("compression", "max")>>

\* visualize.py lines 72-82, visualize_sample.py lines 51-61
extract_steps_int ==
    <<Conversion("int", "", ""),
      Sub("compression"), Sub("decompression"),
      Field("compression", "compressionRatio"),
      Field("compression", "compressedPercentage"),
      Conversion("float", "compression", "compressedPercentage"),
      Field("compression", "real"),
      Conversion("parse_time", "compression", "real"),
      Field("decompression", "real"),
      Conversion("parse_time", "decompression", "real"),
      Field("compression", "compressedSize"),
      Field("compression", "max")>>

\* visualize_json.py lines 65-70
process_steps ==
    <<Conversion("int", "", ""),
      Field("compression", "compressionRatio"),
      Field("compression", "compressedSize"),
      Field("compression", "real"),
      Conversion("parse_time", "compression", "real"),
      Field("decompression", "real"),
      Conversion("parse_time", "decompression", "real"),
      Field("compression", "max")>>

\* Six of the seven appends: memory_usage is left as it is.
append_level_without_memory(series, key, metrics) ==
    [series EXCEPT
        !.compression_levels = Append(@, key),
        !.compression_ratio = Append(@, metrics.compression.compressionRatio),
        !.compressed_percentage =
            Append(@, FloatVal(metrics.compression.compressedPercentage)),
        !.compression_time = Append(@, parse_time(metrics.compression.real)),
        !.decompression_time = Append(@, parse_time(metrics.decompression.real)),
        !.compressed_size = Append(@, metrics.compression.compressedSize)]

\* The seven appends of one level record, given its level key.
append_level(series, key, metrics) ==
    [series EXCEPT
        !.compression_levels = Append(@, key),
        !.compression_ratio = Append(@, metrics.compression.compressionRatio),
        !.compressed_percentage =
            Append(@, FloatVal(metrics.compression.compressedPercentage)),
        !.compression_time = Append(@, parse_time(metrics.compression.real)),
        !.decompression_time = Append(@, parse_time(metrics.decompression.real)),
        !.compressed_size = Append(@, metrics.compression.compressedSize),
        !.memory_usage = Append(@, metrics.compression.max)]

\* visualize_json.py: the six appends of one level record.
append_level_json(series, key, metrics) ==
    [series EXCEPT
        !.levels = Append(@, key),
        !.ratios = Append(@, metrics.compression.compressionRatio),
        !.compressed_sizes = Append(@, metrics.compression.compressedSize),
        !.compression_times = Append(@, parse_time(metrics.compression.real)),
        !.decompression_times = Append(@, parse_time(metrics.decompression.real)),
        !.memory_usage = Append(@, metrics.compression.max)]

\* The lists reordered, but for compression_ratio.
sort_series_but_ratio(series, indices) ==
    [series EXCEPT
        !.compression_levels = Reorder(@, indices),
        !.compressed_percentage = Reorder(@, indices),
        !.compression_time = Reorder(@, indices),
        !.decompression_time = Reorder(@, indices),
        !.compressed_size = Reorder(@, indices),
        !.memory_usage = Reorder(@, indices)]

\* The lists of a series reordered by the index array of np.argsort.
sort_series(series, indices) ==
    [series EXCEPT
        !.compression_levels = Reorder(@, indices),
        !.compression_ratio = Reorder(@, indices),
        !.compressed_percentage = Reorder(@, indices),
        !.compression_time = Reorder(@, indices),
        !.decompression_time = Reorder(@, indices),
        !.compressed_size = Reorder(@, indices),
        !.memory_usage = Reorder(@, indices)]

sort_series_json(series, indices) ==
    [series EXCEPT
        !.levels = Reorder(@, indices),
        !.ratios = Reorder(@, indices),
        !.compressed_sizes = Reorder(@, indices),
        !.compression_times = Reorder(@, indices),
        !.decompression_times = Reorder(@, indices),
        !.memory_usage = Reorder(@, indices)]

(***************************************************************************)
(* State.  The four scripts read the same document; the model walks it     *)
(* once and lets every script take its own step at each position, so that  *)
(* their results can be compared on the same input.                        *)
(***************************************************************************)
VARIABLES
    pc,            \* position of the walk: the loop that is being iterated
    entries,       \* number of top-level entries begun
    filename,      \* key of the current file mapping
    algorithm,     \* key of the current algorithm mapping
    file_keys,     \* file names already walked in the current entry
    algorithm_keys,\* algorithm names already walked in the current file
    level_keys,    \* level identifiers already walked in the current mapping
    json_data,     \* the level records walked so far, with their coordinates
    results,       \* analyze_compression.py extract_data: results
    status,        \*   "running", "returned" or the exception raised
    v_results,     \* visualize.py extract_data / sort_data_by_level
    v_status,      \*   also "extracted": extract_data returned, not sorted yet
    vj_results,    \* visualize_json.py process_data
    vj_status,
    vs_results,    \* visualize_sample.py extract_data
    vs_status,
    np_argsort,    \* the index arrays np.argsort has returned, by key list
    exc_args,      \* analyze_compression.py: args of the KeyError raised
    md_lines,      \* visualize_md.py main: lines (headers and table rows)
    md_status,     \*   "running", "written" or the exception raised
    sorts,         \* history: by <<script, file, algorithm>>, how often the
                   \*   series was sorted and whether a record came after
    summary,       \* analyze_compression.py generate_summary_table, per file
    summary_status,\*   "pending", "written" or the exception raised
    v_summary,     \* visualize.py create_overview_table, per file
    v_summary_status,
    vj_summary,    \* visualize_json.py create_html_summary, per file
    vj_summary_status,
    efficiency,    \* analyze_compression.py plot_compression_efficiency
    efficiency_status,    \* "pending", "plotted" or the exception raised
    vj_efficiency, \* visualize_json.py plot_efficiency_comparison
    vj_efficiency_status,
    vs_plot,       \* visualize_sample.py plot_compression_ratio_comparison
    vs_plot_status,
    time_parts,    \* the fields a duration string was written from
    time_str,      \* parse_time: its argument
    seconds,       \*   its return value
    parse_status   \*   "pending", "returned" or the exception raised

vars == <<pc, entries, filename, algorithm, file_keys, algorithm_keys,
          level_keys, json_data, results, status, v_results, v_status,
          vj_results, vj_status, vs_results, vs_status, np_argsort,
          exc_args, md_lines, md_status, sorts, summary,
          summary_status, v_summary, v_summary_status, vj_summary,
          vj_summary_status, efficiency, efficiency_status, vj_efficiency,
          vj_efficiency_status, vs_plot, vs_plot_status, time_parts,
          time_str, seconds, parse_status>>

plots == <<efficiency, efficiency_status, vj_efficiency,
           vj_efficiency_status, vs_plot, vs_plot_status>>

\* The state of the functions that are called on their own.
elsewhere == <<time_parts, time_str, seconds, parse_status>>

summaries == <<summary, summary_status, v_summary, v_summary_status,
               vj_summary, vj_summary_status>>

walk == <<pc, entries, filename, algorithm, file_keys, algorithm_keys,
          level_keys, json_data>>

\* No call of parse_time on its own.
NotParsing ==
    /\ time_parts = <<>>
    /\ time_str = <<>>
    /\ seconds = None
    /\ parse_status = "pending"

\* No efficiency plotted yet.
NotPlotted ==
    /\ efficiency = EmptyDict
    /\ efficiency_status = "pending"
    /\ vj_efficiency = EmptyDict
    /\ vj_efficiency_status = "pending"
    /\ vs_plot = EmptyDict
    /\ vs_plot_status = "pending"

Init ==
    /\ NotParsing
    /\ NotPlotted
    /\ pc = "json_data"
    /\ entries = 0
    /\ filename = ""
    /\ algorithm = ""
    /\ file_keys = {}
    /\ algorithm_keys = {}
    /\ level_keys = {}
    /\ json_data = <<>>
    /\ results = EmptyDict
    /\ status = "running"
    /\ v_results = EmptyDict
    /\ v_status = "running"
    /\ vj_results = EmptyDict
    /\ vj_status = "running"
    /\ vs_results = EmptyDict
    /\ vs_status = "running"
    /\ np_argsort = EmptyDict
    /\ exc_args = <<>>
    /\ md_lines = <<>>
    /\ md_status = "running"
    /\ sorts = EmptyDict
    /\ summary = EmptyDict
    /\ summary_status = "pending"
    /\ v_summary = EmptyDict
    /\ v_summary_status = "pending"
    /\ vj_summary = EmptyDict
    /\ vj_summary_status = "pending"

\* Some script is still reading the document.
Reading ==
    "running" \in {status, v_status, vj_status, vs_status, md_status}

\* results[f][a] = series
Update(res, f, a, series) == Put(res, f, Put(res[f], a, series))

\* What np.argsort(keys) can return: what it returned before for the same
\* list, and otherwise any index array that sorts it.
ArgsortOutcomes(memo, keys) ==
    IF keys \in DOMAIN memo THEN {memo[keys]} ELSE SortingPerms(keys)

(***************************************************************************)
(* History of the sorts: which series a script has sorted, how often, and  *)
(* whether it appended a level record to the series of that (file,         *)
(* algorithm) afterwards.                                                  *)
(***************************************************************************)
\* A level record is appended by script to the series of (f, a).
appended(h, script, f, a) ==
    IF <<script, f, a>> \in DOMAIN h
    THEN [h EXCEPT ![<<script, f, a>>].appended_after = TRUE]
    ELSE h

RECURSIVE sorted_by(_, _, _)
\* The series of the pairs in keys are sorted by script.
sorted_by(h, script, keys) ==
    IF keys = {} THEN h
    ELSE LET k == CHOOSE x \in keys : TRUE
             id == <<script, k[1], k[2]>>
             old == IF id \in DOMAIN h THEN h[id]
                    ELSE [count |-> 0, appended_after |-> FALSE]
         IN  sorted_by(Put(h, id, [old EXCEPT !.count = @ + 1]), script,
                       keys \ {k})

(***************************************************************************)
(* visualize_md.py main, lines 29-52                                       *)
(***************************************************************************)
\* Line 32 on a test without algorithms: list(algos.values())[0] raises
\* IndexError.  The walk sees it when it leaves the test.
md_after_test(st) ==
    IF st = "running" /\ pc = "algorithms" /\ algorithm_keys = {}
    THEN "IndexError" ELSE st

\* Line 32: what the header line of a test raises, given the first level of
\* its first algorithm (<<>>: the algorithm has no levels).
md_header_error(fst) ==
    IF fst = <<>> THEN <<"IndexError", "">>
    ELSE IF "compression" \notin DOMAIN fst[1].metrics
         THEN <<"AttributeError", "">>
    ELSE <<>>

\* Line 32: the header line of a test.
md_header(test_name, fst) ==
    [kind |-> "header", test |-> test_name,
     original_size |-> Get(fst[1].metrics.compression, "originalSize")]

\* Lines 42-51: the table row of one level record; a missing sub-record or
\* field yields '' (here None).
md_row(algo, lvl, metrics) ==
    LET comp == GetDict(metrics, "compression")
        decomp == GetDict(metrics, "decompression")
    IN  [kind |-> "row", algo |-> algo, lvl |-> lvl,
         ratio |-> Get(comp, "compressionRatio"),
         size |-> Get(comp, "compressedSize"),
         ctime |-> Get(comp, "real"), dtime |-> Get(decomp, "real"),
         cmem |-> Get(comp, "max"), dmem |-> Get(decomp, "max")]

\* levels.items() of the mapping being walked.
levels_items ==
    SelectSeq(json_data, LAMBDA r : /\ r.entry = entries
                                    /\ r.filename = filename
                                    /\ r.algorithm = algorithm)

\* Line 41: sorted(levels.items(), key=lambda x: int(x[0])) raises ValueError
\* when a level identifier is not an integer.
md_sorted_raises(items) == \E i \in 1..Len(items) : ~IntOk(items[i].level)

\* Lines 40-51: the rows of one algorithm, by ascending int(level).
md_rows(algo, items) ==
    LET indices == sorted_indices([i \in 1..Len(items) |->
                                      IntVal(items[i].level)])
    IN  [i \in 1..Len(items) |->
            md_row(algo, items[indices[i]].level, items[indices[i]].metrics)]

(***************************************************************************)
(* for file_data in json_data                                              *)
(***************************************************************************)
ForFileData ==
    /\ pc \in {"json_data", "file_data", "algorithms"}
    /\ Reading
    /\ entries < MaxEntries
    /\ entries' = entries + 1
    /\ pc' = "file_data"
    /\ filename' = ""
    /\ file_keys' = {}
    /\ algorithm_keys' = {}
    /\ md_status' = md_after_test(md_status)
    /\ UNCHANGED <<algorithm, level_keys, json_data, results, status,
                   v_results, v_status, vj_results, vj_status, vs_results,
                   vs_status, np_argsort, exc_args, md_lines, sorts>>
    /\ UNCHANGED <<summaries, plots, elsewhere>>

\* if filename not in results: results[filename] = {}
new_file(res, f) == IF f \in DOMAIN res THEN res ELSE Put(res, f, EmptyDict)

\* visualize_json.py: results[test_name] = {}
new_file_json(res, f) == Put(res, f, EmptyDict)

(***************************************************************************)
(* for filename, algorithms in file_data.items()                           *)
(***************************************************************************)
ForFilename(f) ==
    /\ pc \in {"file_data", "algorithms"}
    /\ Reading
    /\ f \notin file_keys
    /\ pc' = "algorithms"
    /\ filename' = f
    /\ file_keys' = file_keys \cup {f}
    /\ algorithm_keys' = {}
    /\ results' = IF status = "running" THEN new_file(results, f) ELSE results
    /\ v_results' = IF v_status = "running" THEN new_file(v_results, f)
                    ELSE v_results
    /\ vs_results' = IF vs_status = "running" THEN new_file(vs_results, f)
                     ELSE vs_results
    /\ vj_results' = IF vj_status = "running" THEN new_file_json(vj_results, f)
                     ELSE vj_results
    /\ md_status' = md_after_test(md_status)
    /\ UNCHANGED <<entries, algorithm, level_keys, json_data, status,
                   v_status, vj_status, vs_status, np_argsort, exc_args,
                   md_lines, sorts>>
    /\ UNCHANGED <<summaries, plots, elsewhere>>

\* list(levels.keys())[0] raises IndexError: the series has no original size
\* yet and the 'levels' mapping is empty.
new_series_raises(res, f, a, fst) ==
    /\ fst = <<>>
    /\ (a \in DOMAIN res[f] => res[f][a].original_size = None)

\* As if list(levels.keys())[0] raised nothing on an empty mapping.
series_error_but_empty(res, f, a, fst, steps) ==
    IF fst = <<>> THEN <<>>
    ELSE first_error((IF a \in DOMAIN res[f]
                         /\ res[f][a].original_size # None
                      THEN <<>> ELSE original_size_steps) \o steps,
                     fst[1].level, fst[1].metrics)

\* What lines 50-85 raise for a mapping with the first level fst: the read
\* of the original size (when the series has none yet), then the steps of the
\* first level record.
series_error(res, f, a, fst, steps) ==
    IF new_series_raises(res, f, a, fst) THEN <<"IndexError", "">>
    ELSE IF fst = <<>> THEN <<>>
    ELSE first_error((IF a \in DOMAIN res[f]
                         /\ res[f][a].original_size # None
                      THEN <<>> ELSE original_size_steps) \o steps,
                     fst[1].level, fst[1].metrics)

\* visualize_json.py lines 59-70: next(iter(levels.values())) raises
\* StopIteration on an empty mapping; the original size is read every time.
series_error_json(fst) ==
    IF fst = <<>> THEN <<"StopIteration", "">>
    ELSE first_error(original_size_steps \o process_steps,
                     fst[1].level, fst[1].metrics)

\* The status of a script after a step that raises err (<<>>: nothing).
Raised(st, err) ==
    IF st # "running" THEN st ELSE IF err = <<>> THEN "running" ELSE err[1]

\* The args of the exception analyze_compression.py has died of: the missing
\* key of a KeyError (raised by a subscript, lines 65-85).
Args(st, args, err) ==
    IF st = "running" /\ err # <<>> /\ err[1] = "KeyError" THEN <<err[2]>>
    ELSE args

\* Lines 50-65: the series is located or created, and its original size is
\* taken from the first level of the mapping if it has none yet.
new_series(res, f, a, fst) ==
    LET old == IF a \in DOMAIN res[f] THEN res[f][a] ELSE EmptySeries
        new == IF old.original_size = None /\ fst # <<>>
               THEN [old EXCEPT !.original_size =
                         Some(fst[1].metrics.compression.originalSize)]
               ELSE old
    IN  Update(res, f, a, new)

\* visualize_json.py lines 49-61: the series is created anew and its original
\* size is taken from the first level; next(iter(...)) raises StopIteration on
\* an empty mapping.
new_series_json(res, f, a, fst) ==
    Update(res, f, a,
           [EmptySeriesJson EXCEPT !.original_size =
                Some(fst[1].metrics.compression.originalSize)])

\* analyze_compression.py lines 68-85: one level record appended.
extract_level(res, f, a, level, metrics) ==
    Update(res, f, a, append_level(res[f][a], level_int(level), metrics))

\* The level record appended under the key -int(level).
extract_level_int_negated(res, f, a, level, metrics) ==
    Update(res, f, a, append_level(res[f][a], 0 - IntVal(level), metrics))

\* visualize.py lines 71-82, visualize_sample.py lines 50-61: int(level).
extract_level_int(res, f, a, level, metrics) ==
    Update(res, f, a, append_level(res[f][a], IntVal(level), metrics))

\* visualize_json.py lines 64-70.
process_level(res, f, a, level, metrics) ==
    Update(res, f, a, append_level_json(res[f][a], IntVal(level), metrics))

\* The level record at position i of json_data.
Walked(level, metrics) ==
    [entry |-> entries, filename |-> filename, algorithm |-> algorithm,
     level |-> level, metrics |-> metrics]

(***************************************************************************)
(* for algorithm, levels in algorithms.items(): the series is located or   *)
(* created, its original size read from the first level, and the first     *)
(* level record (if the mapping has one) appended.                         *)
(***************************************************************************)
ForAlgorithm(a, fst) ==
    /\ pc = "algorithms"
    /\ Reading
    /\ a \notin algorithm_keys
    /\ Len(json_data) + Len(fst) <= MaxRecords
    /\ pc' = IF fst = <<>> THEN "algorithms" ELSE "levels"
    /\ algorithm' = IF fst = <<>> THEN "" ELSE a
    /\ algorithm_keys' = algorithm_keys \cup {a}
    /\ level_keys' = IF fst = <<>> THEN {} ELSE {fst[1].level}
    /\ json_data' = IF fst = <<>> THEN json_data
                    ELSE Append(json_data,
                                [Walked(fst[1].level, fst[1].metrics)
                                    EXCEPT !.algorithm = a])
    /\ status' = Raised(status, series_error(results, filename, a, fst,
                                              extract_steps))
    /\ exc_args' = Args(status, exc_args,
                        series_error(results, filename, a, fst, extract_steps))
    /\ results' =
         IF status' # "running" THEN results
         ELSE IF fst = <<>> THEN new_series(results, filename, a, fst)
         ELSE extract_level(new_series(results, filename, a, fst), filename, a,
                            fst[1].level, fst[1].metrics)
    /\ v_status' = Raised(v_status,
                           series_error(v_results, filename, a, fst,
                                        extract_steps_int))
    /\ v_results' =
         IF v_status' # "running" THEN v_results
         ELSE IF fst = <<>> THEN new_series(v_results, filename, a, fst)
         ELSE extract_level_int(new_series(v_results, filename, a, fst),
                                filename, a, fst[1].level, fst[1].metrics)
    /\ vs_status' = Raised(vs_status,
                           series_error(vs_results, filename, a, fst,
                                        extract_steps_int))
    /\ vs_results' =
         IF vs_status' # "running" THEN vs_results
         ELSE IF fst = <<>> THEN new_series(vs_results, filename, a, fst)
         ELSE extract_level_int(new_series(vs_results, filename, a, fst),
                                filename, a, fst[1].level, fst[1].metrics)
    /\ vj_status' = Raised(vj_status, series_error_json(fst))
    /\ vj_results' =
         IF vj_status' # "running" THEN vj_results
         ELSE process_level(new_series_json(vj_results, filename, a, fst),
                            filename, a, fst[1].level, fst[1].metrics)
    /\ md_status' = IF algorithm_keys = {}
                    THEN Raised(md_status, md_header_error(fst))
                    ELSE md_status
    /\ md_lines' = IF algorithm_keys = {} /\ md_status' = "running"
                   THEN Append(md_lines, md_header(filename, fst))
                   ELSE md_lines
    /\ sorts' =
         LET h == IF status' = "running" /\ fst # <<>>
                  THEN appended(sorts, "analyze_compression", filename, a)
                  ELSE sorts
         IN  IF vj_status' = "running"
             THEN appended(h, "visualize_json", filename, a)
             ELSE h
    /\ UNCHANGED <<entries, filename, file_keys, np_argsort>>
    /\ UNCHANGED <<summaries, plots, elsewhere>>

(***************************************************************************)
(* for level, metrics in levels.items(): a further level record            *)
(***************************************************************************)
ForLevel(level, metrics) ==
    /\ pc = "levels"
    /\ Reading
    /\ level \notin level_keys
    /\ Len(json_data) < MaxRecords
    /\ level_keys' = level_keys \cup {level}
    /\ json_data' = Append(json_data, Walked(level, metrics))
    /\ status' = Raised(status, first_error(extract_steps, level, metrics))
    /\ exc_args' = Args(status, exc_args,
                        first_error(extract_steps, level, metrics))
    /\ results' = IF status' = "running"
                  THEN extract_level(results, filename, algorithm, level,
                                     metrics)
                  ELSE results
    /\ v_status' = Raised(v_status,
                          first_error(extract_steps_int, level, metrics))
    /\ v_results' = IF v_status' = "running"
                    THEN extract_level_int(v_results, filename, algorithm,
                                           level, metrics)
                    ELSE v_results
    /\ vs_status' = Raised(vs_status,
                           first_error(extract_steps_int, level, metrics))
    /\ vs_results' = IF vs_status' = "running"
                     THEN extract_level_int(vs_results, filename, algorithm,
                                            level, metrics)
                     ELSE vs_results
    /\ vj_status' = Raised(vj_status,
                           first_error(process_steps, level, metrics))
    /\ vj_results' = IF vj_status' = "running"
                     THEN process_level(vj_results, filename, algorithm,
                                        level, metrics)
                     ELSE vj_results
    /\ UNCHANGED <<pc, entries, filename, algorithm, file_keys,
                   algorithm_keys, np_argsort, md_lines, md_status>>
    /\ sorts' =
         LET h == IF status' = "running"
                  THEN appended(sorts, "analyze_compression", filename,
                                algorithm)
                  ELSE sorts
         IN  IF vj_status' = "running"
             THEN appended(h, "visualize_json", filename, algorithm)
             ELSE h
    /\ UNCHANGED <<summaries, plots, elsewhere>>

(***************************************************************************)
(* The end of the loop over levels.  visualize_json.py sorts the series    *)
(* here (lines 72-76); the other scripts go on to the next algorithm.      *)
(***************************************************************************)
EndLevels ==
    /\ pc = "levels"
    /\ Reading
    /\ pc' = "algorithms"
    /\ algorithm' = ""
    /\ level_keys' = {}
    /\ IF vj_status = "running"
       THEN LET series == vj_results[filename][algorithm]
            IN  \E indices \in ArgsortOutcomes(np_argsort, series.levels) :
                  /\ np_argsort' = Put(np_argsort, series.levels, indices)
                  /\ vj_results' = Update(vj_results, filename, algorithm,
                                          sort_series_json(series, indices))
                  /\ sorts' = sorted_by(sorts, "visualize_json",
                                        {<<filename, algorithm>>})
       ELSE UNCHANGED <<vj_results, np_argsort, sorts>>
    /\ md_status' = IF md_status = "running" /\ md_sorted_raises(levels_items)
                    THEN "ValueError" ELSE md_status
    /\ md_lines' = IF md_status' = "running"
                   THEN md_lines \o md_rows(algorithm, levels_items)
                   ELSE md_lines
    /\ UNCHANGED <<entries, filename, file_keys, algorithm_keys,
                   json_data, results, status, v_results, v_status, vj_status,
                   vs_results, vs_status, exc_args>>
    /\ UNCHANGED <<summaries, plots, elsewhere>>

\* The (file, algorithm) pairs of a results dict.
SeriesKeys(res) == {<<f, a>> \in Files \X Algorithms :
                        f \in DOMAIN res /\ a \in DOMAIN res[f]}

RECURSIVE sort_loop(_, _, _)
\* The sort loop over the series in todo (analyze_compression.py lines 88-96,
\* visualize.py lines 88-96): the pairs <<results, index arrays returned by
\* np.argsort>> it can end with.
sort_loop(res, memo, todo) ==
    IF todo = {} THEN {<<res, memo>>}
    ELSE LET k == CHOOSE x \in todo : TRUE
             series == res[k[1]][k[2]]
         IN  UNION {sort_loop(Update(res, k[1], k[2],
                                     sort_series(series, indices)),
                              Put(memo, series.compression_levels, indices),
                              todo \ {k}) :
                    indices \in ArgsortOutcomes(memo, series.compression_levels)}

(***************************************************************************)
(* The end of the document.  analyze_compression.py sorts every series and *)
(* returns (lines 87-98); process_data (visualize_json.py) and extract_data*)
(* of visualize.py and visualize_sample.py return what they hold.          *)
(***************************************************************************)
EndOfData ==
    /\ pc \in {"json_data", "file_data", "algorithms"}
    /\ Reading
    /\ pc' = "returned"
    /\ filename' = ""
    /\ file_keys' = {}
    /\ algorithm_keys' = {}
    /\ IF status = "running"
       THEN \E out \in sort_loop(results, np_argsort, SeriesKeys(results)) :
              /\ results' = out[1]
              /\ np_argsort' = out[2]
              /\ status' = "returned"
              /\ sorts' = sorted_by(sorts, "analyze_compression",
                                    SeriesKeys(results))
       ELSE UNCHANGED <<results, np_argsort, status, sorts>>
    /\ v_status' = IF v_status = "running" THEN "extracted" ELSE v_status
    /\ vj_status' = IF vj_status = "running" THEN "returned" ELSE vj_status
    /\ vs_status' = IF vs_status = "running" THEN "returned" ELSE vs_status
    /\ md_status' = IF md_after_test(md_status) = "running" THEN "written"
                    ELSE md_after_test(md_status)
    /\ UNCHANGED <<entries, algorithm, level_keys, json_data,
                   v_results, vj_results, vs_results, exc_args, md_lines>>
    /\ UNCHANGED <<summaries, plots, elsewhere>>

(***************************************************************************)
(* visualize.py main line 456: results = sort_data_by_level(results)       *)
(***************************************************************************)
sort_data_by_level ==
    /\ v_status = "extracted"
    /\ \E out \in sort_loop(v_results, np_argsort, SeriesKeys(v_results)) :
         /\ v_results' = out[1]
         /\ np_argsort' = out[2]
    /\ v_status' = "returned"
    /\ UNCHANGED <<walk, results, status, vj_results, vj_status, vs_results,
                   vs_status, exc_args, md_lines, md_status, sorts>>
    /\ UNCHANGED <<summaries, plots, elsewhere>>

\* A first level of a 'levels' mapping: none (the mapping is empty) or one.
FirstLevels ==
    {<<>>} \cup {<<[level |-> l, metrics |-> m]>> :
                    l \in LevelIds, m \in LevelRecords}


(***************************************************************************)
(* Derived metrics: efficiency (plot_compression_efficiency of             *)
(* analyze_compression.py, plot_efficiency_comparison of                   *)
(* visualize_json.py) and the percentage saved.  A quotient is kept exact, *)
(* as the pair <<numerator, denominator>>.                                 *)
(***************************************************************************)
\* 0.001, in thousandths
Epsilon == 1

\* ratio / (time + 0.001) raises ZeroDivisionError.
efficiency_raises(ratios, times) ==
    \E i \in 1..Len(ratios) : times[i] + Epsilon = 0

\* The quotients ratio / time, without the offset.
efficiency_without_offset(ratios, times) ==
    [i \in 1..Len(ratios) |-> <<ratios[i], times[i]>>]

\* [ratio / (time + 0.001) for ratio, time in zip(ratios, times)]
efficiency_of(ratios, times) ==
    [i \in 1..Len(ratios) |-> <<ratios[i], times[i] + Epsilon>>]

\* The percentage itself.
percent_kept(percentage) == percentage

\* 100 - percentage
percent_saved(percentage) == 100 * Milli - percentage

(***************************************************************************)
(* Best-value selection: generate_summary_table (analyze_compression.py),  *)
(* create_overview_table (visualize.py), create_html_summary               *)
(* (visualize_json.py).  Each takes the model of one file, 'algorithms',   *)
(* a dict from algorithm name to series.                                   *)
(***************************************************************************)
\* float('inf')
Inf == 1000000000

Range(seq) == {seq[i] : i \in 1..Len(seq)}
SetMax(S) == CHOOSE x \in S : \A y \in S : y <= x
SetMin(S) == CHOOSE x \in S : \A y \in S : x <= y

\* max(lst), min(lst): they raise ValueError on an empty list.
SeqMax(lst) == SetMax(Range(lst))
SeqMin(lst) == SetMin(Range(lst))

\* The last position of the maximum.
argmax_last(lst) == CHOOSE i \in 1..Len(lst) :
                        /\ lst[i] = SeqMax(lst)
                        /\ \A j \in (i + 1)..Len(lst) : lst[j] # lst[i]

\* np.argmax(lst), lst.index(max(lst)): the first position of the maximum.
argmax(lst) == CHOOSE i \in 1..Len(lst) :
                   lst[i] = SeqMax(lst) /\ \A j \in 1..(i - 1) : lst[j] # lst[i]

\* np.argmin(lst), lst.index(min(lst)): the first position of the minimum.
argmin(lst) == CHOOSE i \in 1..Len(lst) :
                   lst[i] = SeqMin(lst) /\ \A j \in 1..(i - 1) : lst[j] # lst[i]

\* The maximum over the algorithms of each one's lowest ratio.
best_ratio_of_minima(algorithms) ==
    SetMax({SeqMin(algorithms[a].compression_ratio) : a \in DOMAIN algorithms})

\* analyze_compression.py line 300
best_ratio(algorithms) ==
    SetMax({SeqMax(algorithms[a].compression_ratio) : a \in DOMAIN algorithms})

\* The algorithms that pass the filter 'if min(alg[key]) > 0'.
positive_min(algorithms, key) ==
    {a \in DOMAIN algorithms : SeqMin(algorithms[a][key]) > 0}

\* analyze_compression.py line 301
best_comp_time(algorithms) ==
    SetMin({SeqMin(algorithms[a].compression_time) :
               a \in positive_min(algorithms, "compression_time")})

\* analyze_compression.py line 302
best_decomp_time(algorithms) ==
    SetMin({SeqMin(algorithms[a].decompression_time) :
               a \in positive_min(algorithms, "decompression_time")})

\* The minimum over the algorithms whose lowest memory is positive (inf when
\* there is none).
best_memory_positive(algorithms) ==
    SetMin({Inf} \cup {SeqMin(algorithms[a].memory_usage) :
                          a \in positive_min(algorithms, "memory_usage")})

\* analyze_compression.py line 303
best_memory(algorithms) ==
    SetMin({SeqMin(algorithms[a].memory_usage) : a \in DOMAIN algorithms})

\* Lines 300-303 and 323-326 raise ValueError: max() or min() of an empty
\* sequence (no algorithm, an empty series, or no algorithm passing the filter).
summary_raises(algorithms) ==
    \/ DOMAIN algorithms = {}
    \/ \E a \in DOMAIN algorithms : algorithms[a].compression_levels = <<>>
    \/ positive_min(algorithms, "compression_time") = {}
    \/ positive_min(algorithms, "decompression_time") = {}

\* analyze_compression.py lines 321-351: the row of one algorithm.
summary_row(metrics, algorithms) ==
    LET best_ratio_idx == argmax(metrics.compression_ratio)
        best_comp_time_idx == argmin(metrics.compression_time)
        best_decomp_time_idx == argmin(metrics.decompression_time)
        best_memory_idx == argmin(metrics.memory_usage)
    IN  [ratio_value |-> metrics.compression_ratio[best_ratio_idx],
         ratio_class |-> metrics.compression_ratio[best_ratio_idx]
                            = best_ratio(algorithms),
         ratio_level |-> metrics.compression_levels[best_ratio_idx],
         comp_time_value |-> metrics.compression_time[best_comp_time_idx],
         comp_time_class |-> metrics.compression_time[best_comp_time_idx]
                                = best_comp_time(algorithms),
         comp_time_level |-> metrics.compression_levels[best_comp_time_idx],
         decomp_time_value |-> metrics.decompression_time[best_decomp_time_idx],
         decomp_time_class |-> metrics.decompression_time[best_decomp_time_idx]
                                  = best_decomp_time(algorithms),
         decomp_time_level |->
             metrics.compression_levels[best_decomp_time_idx],
         memory_value |-> metrics.memory_usage[best_memory_idx],
         memory_class |-> metrics.memory_usage[best_memory_idx]
                             = best_memory(algorithms),
         memory_level |-> metrics.compression_levels[best_memory_idx]]

\* analyze_compression.py lines 373-386: the detailed rows of one algorithm,
\* one per level.  The format specifications (.2f, .1f, .3f) are rendering.
detail_rows(metrics) ==
    [i \in 1..Len(metrics.compression_levels) |->
        [level |-> metrics.compression_levels[i],
         ratio |-> metrics.compression_ratio[i],
         size |-> metrics.compressed_size[i],
         percent |-> percent_saved(metrics.compressed_percentage[i]),
         comp_time |-> metrics.compression_time[i],
         decomp_time |-> metrics.decompression_time[i],
         memory |-> metrics.memory_usage[i]]]

\* analyze_compression.py lines 296-388: the best values, the rows and the
\* detailed rows of one file.
file_summary(algorithms) ==
    [best_ratio |-> best_ratio(algorithms),
     best_comp_time |-> best_comp_time(algorithms),
     best_decomp_time |-> best_decomp_time(algorithms),
     best_memory |-> best_memory(algorithms),
     rows |-> [a \in DOMAIN algorithms |->
                  summary_row(algorithms[a], algorithms)],
     details |-> [a \in DOMAIN algorithms |-> detail_rows(algorithms[a])]]

\* visualize.py lines 372-380: best_ratio starts at 0 and is raised by every
\* larger maximum.
overview_best_ratio(algorithms) ==
    SetMax({0} \cup {SeqMax(algorithms[a].compression_ratio) :
                        a \in DOMAIN algorithms})

\* visualize.py lines 373, 382-384: best_time starts at inf and is lowered by
\* every smaller minimum.
overview_best_time(algorithms) ==
    SetMin({Inf} \cup {SeqMin(algorithms[a].compression_time) :
                          a \in DOMAIN algorithms})

\* visualize.py lines 374, 386-388
overview_best_memory(algorithms) ==
    SetMin({Inf} \cup {SeqMin(algorithms[a].memory_usage) :
                          a \in DOMAIN algorithms})

\* visualize.py lines 375, 390-392
overview_best_decompression(algorithms) ==
    SetMin({Inf} \cup {SeqMin(algorithms[a].decompression_time) :
                          a \in DOMAIN algorithms})

\* np.argmax / np.argmin of an empty list raises ValueError.
overview_raises(algorithms) ==
    \E a \in DOMAIN algorithms : algorithms[a].compression_levels = <<>>

\* visualize.py lines 395-408: the row of one algorithm, read at the level of
\* its maximum ratio.
overview_row(data, algorithms) ==
    LET idx == argmax(data.compression_ratio)
    IN  [level |-> data.compression_levels[idx],
         ratio |-> data.compression_ratio[idx],
         perc |-> percent_saved(data.compressed_percentage[idx]),
         c_time |-> data.compression_time[idx],
         d_time |-> data.decompression_time[idx],
         memory |-> data.memory_usage[idx],
         ratio_class |-> data.compression_ratio[idx]
                            = overview_best_ratio(algorithms),
         c_time_class |-> data.compression_time[idx]
                             = overview_best_time(algorithms),
         d_time_class |-> data.decompression_time[idx]
                             = overview_best_decompression(algorithms),
         memory_class |-> data.memory_usage[idx]
                             = overview_best_memory(algorithms)]

\* visualize.py lines 371-420
file_overview(algorithms) ==
    [best_ratio |-> overview_best_ratio(algorithms),
     best_time |-> overview_best_time(algorithms),
     best_decompression |-> overview_best_decompression(algorithms),
     best_memory |-> overview_best_memory(algorithms),
     rows |-> [a \in DOMAIN algorithms |->
                  overview_row(algorithms[a], algorithms)]]

\* visualize_json.py lines 307, 314
html_best_ratio(algorithms) ==
    SetMax({0} \cup {SeqMax(algorithms[a].ratios) : a \in DOMAIN algorithms})

\* visualize_json.py lines 308, 315: '... if metrics[key] else float("inf")'
html_best_comp_time(algorithms) ==
    SetMin({Inf} \cup {SeqMin(algorithms[a].compression_times) :
                          a \in {b \in DOMAIN algorithms :
                                    algorithms[b].compression_times # <<>>}})

\* visualize_json.py lines 309, 316
html_best_decomp_time(algorithms) ==
    SetMin({Inf} \cup {SeqMin(algorithms[a].decompression_times) :
                          a \in {b \in DOMAIN algorithms :
                                    algorithms[b].decompression_times # <<>>}})

\* visualize_json.py lines 310, 317
html_best_memory(algorithms) ==
    SetMin({Inf} \cup {SeqMin(algorithms[a].memory_usage) :
                          a \in {b \in DOMAIN algorithms :
                                    algorithms[b].memory_usage # <<>>}})

\* max(metrics['ratios']) raises ValueError on an empty series.
html_raises(algorithms) ==
    \E a \in DOMAIN algorithms : algorithms[a].ratios = <<>>

\* visualize_json.py lines 320-352: the row of one algorithm.
html_row(metrics, algorithms) ==
    LET max_ratio_idx == argmax(metrics.ratios)
        min_comp_time_idx == argmin(metrics.compression_times)
        min_decomp_time_idx == argmin(metrics.decompression_times)
        min_memory_idx == argmin(metrics.memory_usage)
    IN  [ratio |-> metrics.ratios[max_ratio_idx],
         ratio_class |-> metrics.ratios[max_ratio_idx]
                            = html_best_ratio(algorithms),
         ratio_level |-> metrics.levels[max_ratio_idx],
         comp_time |-> metrics.compression_times[min_comp_time_idx],
         comp_class |-> metrics.compression_times[min_comp_time_idx]
                           = html_best_comp_time(algorithms),
         comp_time_level |-> metrics.levels[min_comp_time_idx],
         decomp_time |-> metrics.decompression_times[min_decomp_time_idx],
         decomp_class |-> metrics.decompression_times[min_decomp_time_idx]
                             = html_best_decomp_time(algorithms),
         decomp_time_level |-> metrics.levels[min_decomp_time_idx],
         memory |-> metrics.memory_usage[min_memory_idx],
         memory_class |-> metrics.memory_usage[min_memory_idx]
                             = html_best_memory(algorithms),
         memory_level |-> metrics.levels[min_memory_idx]]

\* visualize_json.py lines 306-352
file_html(algorithms) ==
    [best_ratio |-> html_best_ratio(algorithms),
     best_comp_time |-> html_best_comp_time(algorithms),
     best_decomp_time |-> html_best_decomp_time(algorithms),
     best_memory |-> html_best_memory(algorithms),
     rows |-> [a \in DOMAIN algorithms |-> html_row(algorithms[a], algorithms)]]

normalization == <<walk, results, status, v_results, v_status, vj_results,
                   vj_status, vs_results, vs_status, np_argsort, exc_args,
                   md_lines, md_status, sorts>>

\* The efficiency lists of every series of a model, by file and algorithm.
efficiency_lists(data, ratio_key, time_key) ==
    [f \in DOMAIN data |->
        [a \in DOMAIN data[f] |->
            efficiency_of(data[f][a][ratio_key], data[f][a][time_key])]]

\* Some efficiency list of the model raises ZeroDivisionError.
efficiency_lists_raise(data, ratio_key, time_key) ==
    \E f \in DOMAIN data : \E a \in DOMAIN data[f] :
       efficiency_raises(data[f][a][ratio_key], data[f][a][time_key])

(***************************************************************************)
(* analyze_compression.py main line 423: plot_compression_efficiency       *)
(***************************************************************************)
plot_compression_efficiency ==
    /\ status = "returned"
    /\ efficiency_status = "pending"
    /\ IF efficiency_lists_raise(results, "compression_ratio",
                                 "compression_time")
       THEN /\ efficiency_status' = "ZeroDivisionError"
            /\ efficiency' = efficiency
       ELSE /\ efficiency_status' = "plotted"
            /\ efficiency' = efficiency_lists(results, "compression_ratio",
                                              "compression_time")
    /\ UNCHANGED <<normalization, summaries, elsewhere, vj_efficiency,
                   vj_efficiency_status, vs_plot, vs_plot_status>>

(***************************************************************************)
(* visualize_json.py main line 439: plot_efficiency_comparison             *)
(***************************************************************************)
plot_efficiency_comparison ==
    /\ vj_status = "returned"
    /\ vj_efficiency_status = "pending"
    /\ IF efficiency_lists_raise(vj_results, "ratios", "compression_times")
       THEN /\ vj_efficiency_status' = "ZeroDivisionError"
            /\ vj_efficiency' = vj_efficiency
       ELSE /\ vj_efficiency_status' = "plotted"
            /\ vj_efficiency' = efficiency_lists(vj_results, "ratios",
                                                 "compression_times")
    /\ UNCHANGED <<normalization, summaries, elsewhere, efficiency,
                   efficiency_status, vs_plot, vs_plot_status>>

(***************************************************************************)
(* visualize_sample.py main line 254: plot_compression_ratio_comparison.   *)
(* Each series is sorted by level for the plot (lines 104-106): the sorted *)
(* levels and ratios are new lists, the model keeps its order.             *)
(***************************************************************************)
\* The levels and ratios plotted, given the model with its series sorted.
plotted_lines(sorted) ==
    [f \in DOMAIN sorted |->
        [a \in DOMAIN sorted[f] |->
            [levels |-> sorted[f][a].compression_levels,
             ratios |-> sorted[f][a].compression_ratio]]]

\* The sorted lists are assigned to the series.
plot_compression_ratio_comparison_in_place ==
    /\ vs_status = "returned"
    /\ vs_plot_status = "pending"
    /\ \E out \in sort_loop(vs_results, np_argsort, SeriesKeys(vs_results)) :
         /\ vs_plot' = plotted_lines(out[1])
         /\ np_argsort' = out[2]
         /\ vs_results' = out[1]
    /\ vs_plot_status' = "plotted"
    /\ UNCHANGED <<walk, results, status, v_results, v_status, vj_results,
                   vj_status, vs_status, exc_args, md_lines,
                   md_status, sorts>>
    /\ UNCHANGED <<summaries, elsewhere, efficiency, efficiency_status,
                   vj_efficiency, vj_efficiency_status>>

plot_compression_ratio_comparison ==
    /\ vs_status = "returned"
    /\ vs_plot_status = "pending"
    /\ \E out \in sort_loop(vs_results, np_argsort, SeriesKeys(vs_results)) :
         /\ vs_plot' = plotted_lines(out[1])
         /\ np_argsort' = out[2]
    /\ vs_plot_status' = "plotted"
    /\ UNCHANGED <<walk, results, status, v_results, v_status, vj_results,
                   vj_status, vs_results, vs_status, exc_args, md_lines,
                   md_status, sorts>>
    /\ UNCHANGED <<summaries, elsewhere, efficiency, efficiency_status,
                   vj_efficiency, vj_efficiency_status>>

(***************************************************************************)
(* analyze_compression.py main line 426: generate_summary_table            *)
(***************************************************************************)
generate_summary_table ==
    /\ status = "returned"
    /\ efficiency_status = "plotted"
    /\ summary_status = "pending"
    /\ IF \E f \in DOMAIN results : summary_raises(results[f])
       THEN /\ summary_status' = "ValueError"
            /\ summary' = summary
       ELSE /\ summary_status' = "written"
            /\ summary' = [f \in DOMAIN results |-> file_summary(results[f])]
    /\ UNCHANGED <<normalization, plots, elsewhere, v_summary, v_summary_status, vj_summary,
                   vj_summary_status>>

(***************************************************************************)
(* visualize.py main line 467: create_overview_table                       *)
(***************************************************************************)
create_overview_table ==
    /\ v_status = "returned"
    /\ v_summary_status = "pending"
    /\ IF \E f \in DOMAIN v_results : overview_raises(v_results[f])
       THEN /\ v_summary_status' = "ValueError"
            /\ v_summary' = v_summary
       ELSE /\ v_summary_status' = "written"
            /\ v_summary' = [f \in DOMAIN v_results |->
                                file_overview(v_results[f])]
    /\ UNCHANGED <<normalization, plots, elsewhere, summary, summary_status, vj_summary,
                   vj_summary_status>>

(***************************************************************************)
(* visualize_json.py main line 441: create_html_summary                    *)
(***************************************************************************)
create_html_summary ==
    /\ vj_status = "returned"
    /\ vj_efficiency_status = "plotted"
    /\ vj_summary_status = "pending"
    /\ IF \E f \in DOMAIN vj_results : html_raises(vj_results[f])
       THEN /\ vj_summary_status' = "ValueError"
            /\ vj_summary' = vj_summary
       ELSE /\ vj_summary_status' = "written"
            /\ vj_summary' = [f \in DOMAIN vj_results |->
                                 file_html(vj_results[f])]
    /\ UNCHANGED <<normalization, plots, elsewhere, summary, summary_status, v_summary,
                   v_summary_status>>

(***************************************************************************)
(* The run over a document: the four extractions in step, then the sort of *)
(* visualize.py, and the efficiency plot and the summary of                *)
(* analyze_compression.py.                                                 *)
(***************************************************************************)
Next ==
    \/ ForFileData
    \/ \E f \in Files : ForFilename(f)
    \/ \E a \in Algorithms, fst \in FirstLevels : ForAlgorithm(a, fst)
    \/ \E level \in LevelIds, metrics \in LevelRecords : ForLevel(level, metrics)
    \/ EndLevels
    \/ EndOfData
    \/ sort_data_by_level
    \/ plot_compression_efficiency
    \/ generate_summary_table

Spec == Init /\ [][Next]_vars

(***************************************************************************)
(* The run over a document whose level records may lack a sub-record or a  *)
(* field: the walk by the five scripts in step, then what each main calls  *)
(* once its extraction has returned.                                       *)
(***************************************************************************)
\* The level record without metrics[sub].
WithoutSub(metrics, sub) ==
    [x \in (DOMAIN metrics) \ {sub} |-> metrics[x]]

\* The level record without metrics[sub][field].
WithoutField(metrics, sub, field) ==
    [metrics EXCEPT ![sub] = [x \in (DOMAIN metrics[sub]) \ {field} |->
                                 metrics[sub][x]]]

\* A level record with every field: ratio 2.5 in "0:02".
FullRecord ==
    LevelRecord(1000, 400, 2500, <<"4", "0", ".", "0">>,
                <<"0", ":", "0", "2">>, 600,
                <<"0", ":", "0", "0", ".", "2">>, 120)

\* The level records of the walk: the full one, and it without a sub-record
\* or without one field.
FieldRecords ==
    {FullRecord,
     WithoutSub(FullRecord, "compression"),
     WithoutSub(FullRecord, "decompression"),
     WithoutField(FullRecord, "compression", "real"),
     WithoutField(FullRecord, "compression", "compressedPercentage"),
     WithoutField(FullRecord, "decompression", "real")}

FieldLevelIds == {<<"1">>, <<"3">>}

FieldFirstLevels ==
    {<<>>} \cup {<<[level |-> l, metrics |-> m]>> :
                    l \in FieldLevelIds, m \in FieldRecords}

NextFields ==
    \/ ForFileData
    \/ \E f \in Files : ForFilename(f)
    \/ \E a \in Algorithms, fst \in FieldFirstLevels : ForAlgorithm(a, fst)
    \/ \E level \in FieldLevelIds, metrics \in FieldRecords :
         ForLevel(level, metrics)
    \/ EndLevels
    \/ EndOfData
    \/ sort_data_by_level
    \/ plot_compression_efficiency
    \/ generate_summary_table
    \/ create_overview_table
    \/ plot_efficiency_comparison
    \/ create_html_summary
    \/ plot_compression_ratio_comparison

SpecFields == Init /\ [][NextFields]_vars

(***************************************************************************)
(* Selection on its own: every finalized model of one file with at most    *)
(* MaxSelRecords level records, handed to the three summary functions.     *)
(***************************************************************************)
MaxSelRecords == 2

\* The per-level values of the finalized models.
SelRatios == {1670, 2500}
SelCompressionTimes == {0, 300, 500}
SelDecompressionTimes == {0, 100}
SelMemory == {0, 500}

SelRecords ==
    [ratio : SelRatios, ctime : SelCompressionTimes,
     dtime : SelDecompressionTimes, memory : SelMemory]

\* The finalized series of the level records r, levels 1..Len(r) ascending.
SelSeries(r) ==
    [compression_levels |-> [i \in 1..Len(r) |-> i * Milli],
     compression_ratio |-> [i \in 1..Len(r) |-> r[i].ratio],
     compressed_percentage |-> [i \in 1..Len(r) |-> 60 * Milli],
     compression_time |-> [i \in 1..Len(r) |-> r[i].ctime],
     decompression_time |-> [i \in 1..Len(r) |-> r[i].dtime],
     original_size |-> Some(1000),
     compressed_size |-> [i \in 1..Len(r) |-> 600],
     memory_usage |-> [i \in 1..Len(r) |-> r[i].memory]]

\* The numbers of level records of "zstd" and of "gz" (0: no such algorithm).
SelShapes ==
    {m \in (1..MaxSelRecords) \X (0..MaxSelRecords) :
        m[1] + m[2] <= MaxSelRecords}

\* The model of one file: one algorithm, or two.
SelModel(r, t) ==
    IF t = <<>>
    THEN [a \in {"zstd"} |-> SelSeries(r)]
    ELSE [a \in {"zstd", "gz"} |-> IF a = "zstd" THEN SelSeries(r)
                                                 ELSE SelSeries(t)]

\* The series as visualize_json.py holds it.
AsJson(series) ==
    [levels |-> series.compression_levels,
     ratios |-> series.compression_ratio,
     compressed_sizes |-> series.compressed_size,
     compression_times |-> series.compression_time,
     decompression_times |-> series.decompression_time,
     memory_usage |-> series.memory_usage,
     original_size |-> series.original_size]

InitSel ==
    /\ NotParsing
    /\ pc = "returned"
    /\ entries = 0
    /\ filename = ""
    /\ algorithm = ""
    /\ file_keys = {}
    /\ algorithm_keys = {}
    /\ level_keys = {}
    /\ json_data = <<>>
    /\ \E m \in SelShapes :
         \E r \in [1..m[1] -> SelRecords], t \in [1..m[2] -> SelRecords] :
            LET algorithms == SelModel(r, t)
            IN  /\ results = [f \in {"fileA"} |-> algorithms]
                /\ v_results = [f \in {"fileA"} |-> algorithms]
                /\ vj_results =
                       [f \in {"fileA"} |->
                           [a \in DOMAIN algorithms |-> AsJson(algorithms[a])]]
    /\ efficiency = efficiency_lists(results, "compression_ratio",
                                     "compression_time")
    /\ efficiency_status = "plotted"
    /\ vj_efficiency = efficiency_lists(vj_results, "ratios",
                                        "compression_times")
    /\ vj_efficiency_status = "plotted"
    /\ vs_plot = EmptyDict
    /\ vs_plot_status = "pending"
    /\ status = "returned"
    /\ v_status = "returned"
    /\ vj_status = "returned"
    /\ vs_results = EmptyDict
    /\ vs_status = "returned"
    /\ np_argsort = EmptyDict
    /\ exc_args = <<>>
    /\ md_lines = <<>>
    /\ md_status = "running"
    /\ sorts = EmptyDict
    /\ summary = EmptyDict
    /\ summary_status = "pending"
    /\ v_summary = EmptyDict
    /\ v_summary_status = "pending"
    /\ vj_summary = EmptyDict
    /\ vj_summary_status = "pending"

NextSel ==
    \/ generate_summary_table
    \/ create_overview_table
    \/ create_html_summary

SpecSel == InitSel /\ [][NextSel]_vars

(***************************************************************************)
(* The derived metrics on their own: every finalized model of one file     *)
(* with at most MaxSelRecords level records of the values below, handed to *)
(* the efficiency plots and to the tables that show the percentage saved.  *)
(***************************************************************************)
DerivedRecords ==
    [ratio : {2500, 4000}, ctime : {0, 2000}, pct : {30000, 60000}]

\* The finalized series of the level records r, levels 1..Len(r) ascending.
DerivedSeries(r) ==
    [compression_levels |-> [i \in 1..Len(r) |-> i * Milli],
     compression_ratio |-> [i \in 1..Len(r) |-> r[i].ratio],
     compressed_percentage |-> [i \in 1..Len(r) |-> r[i].pct],
     compression_time |-> [i \in 1..Len(r) |-> r[i].ctime],
     decompression_time |-> [i \in 1..Len(r) |-> 100],
     original_size |-> Some(1000),
     compressed_size |-> [i \in 1..Len(r) |-> 600],
     memory_usage |-> [i \in 1..Len(r) |-> 500]]

DerivedModel(r, t) ==
    IF t = <<>>
    THEN [a \in {"zstd"} |-> DerivedSeries(r)]
    ELSE [a \in {"zstd", "gz"} |-> IF a = "zstd" THEN DerivedSeries(r)
                                                 ELSE DerivedSeries(t)]

InitDerived ==
    /\ NotParsing
    /\ NotPlotted
    /\ pc = "returned"
    /\ entries = 0
    /\ filename = ""
    /\ algorithm = ""
    /\ file_keys = {}
    /\ algorithm_keys = {}
    /\ level_keys = {}
    /\ json_data = <<>>
    /\ \E m \in SelShapes :
         \E r \in [1..m[1] -> DerivedRecords],
            t \in [1..m[2] -> DerivedRecords] :
            LET algorithms == DerivedModel(r, t)
            IN  /\ results = [f \in {"fileA"} |-> algorithms]
                /\ v_results = [f \in {"fileA"} |-> algorithms]
                /\ vj_results =
                       [f \in {"fileA"} |->
                           [a \in DOMAIN algorithms |-> AsJson(algorithms[a])]]
    /\ status = "returned"
    /\ v_status = "returned"
    /\ vj_status = "returned"
    /\ vs_results = EmptyDict
    /\ vs_status = "returned"
    /\ np_argsort = EmptyDict
    /\ exc_args = <<>>
    /\ md_lines = <<>>
    /\ md_status = "running"
    /\ sorts = EmptyDict
    /\ summary = EmptyDict
    /\ summary_status = "pending"
    /\ v_summary = EmptyDict
    /\ v_summary_status = "pending"
    /\ vj_summary = EmptyDict
    /\ vj_summary_status = "pending"

NextDerived ==
    \/ plot_compression_efficiency
    \/ plot_efficiency_comparison
    \/ generate_summary_table
    \/ create_overview_table

SpecDerived == InitDerived /\ [][NextDerived]_vars

(***************************************************************************)
(* parse_time on its own: every duration string of at most MaxParts fields *)
(* joined by ':'.                                                          *)
(***************************************************************************)
MaxParts == 4

\* The fields: their text, and the number they denote in thousandths (None
\* for a field that is no number).
TimeParts ==
    {[text |-> <<"0">>, value |-> Some(0)],
     [text |-> <<"0", "0">>, value |-> Some(0)],
     [text |-> <<"1">>, value |-> Some(1000)],
     [text |-> <<"0", "2">>, value |-> Some(2000)],
     [text |-> <<"0", "3">>, value |-> Some(3000)],
     [text |-> <<"2", ".", "5">>, value |-> Some(2500)],
     [text |-> <<"5">>, value |-> Some(5000)],
     [text |-> <<"-", "0", ".", "0", "0", "1">>, value |-> Some(-1)],
     [text |-> <<"x">>, value |-> None]}

RECURSIVE Join(_)
\* ':'.join(the texts of parts)
Join(parts) ==
    IF parts = <<>> THEN <<>>
    ELSE IF Len(parts) = 1 THEN parts[1].text
    ELSE parts[1].text \o <<":">> \o Join(Tail(parts))

InitParse ==
    /\ \E n \in 0..MaxParts : \E parts \in [1..n -> TimeParts] :
          /\ time_parts = parts
          /\ time_str = Join(parts)
    /\ seconds = None
    /\ parse_status = "pending"
    /\ NotPlotted
    /\ pc = "json_data"
    /\ entries = 0
    /\ filename = ""
    /\ algorithm = ""
    /\ file_keys = {}
    /\ algorithm_keys = {}
    /\ level_keys = {}
    /\ json_data = <<>>
    /\ results = EmptyDict
    /\ status = "running"
    /\ v_results = EmptyDict
    /\ v_status = "running"
    /\ vj_results = EmptyDict
    /\ vj_status = "running"
    /\ vs_results = EmptyDict
    /\ vs_status = "running"
    /\ np_argsort = EmptyDict
    /\ exc_args = <<>>
    /\ md_lines = <<>>
    /\ md_status = "running"
    /\ sorts = EmptyDict
    /\ summary = EmptyDict
    /\ summary_status = "pending"
    /\ v_summary = EmptyDict
    /\ v_summary_status = "pending"
    /\ vj_summary = EmptyDict
    /\ vj_summary_status = "pending"

\* One call parse_time(time_str).
ParseTime ==
    /\ parse_status = "pending"
    /\ IF parse_time_ok(time_str)
       THEN /\ seconds' = Some(parse_time(time_str))
            /\ parse_status' = "returned"
       ELSE /\ seconds' = seconds
            /\ parse_status' = "ValueError"
    /\ UNCHANGED <<normalization, summaries, plots, time_parts, time_str>>

NextParse == ParseTime

SpecParse == InitParse /\ [][NextParse]_vars

(***************************************************************************)
(* What the document held, read back from the walk                         *)
(***************************************************************************)
\* The level records walked for (f, a), in the order they were encountered.
Encountered(f, a) ==
    SelectSeq(json_data, LAMBDA r : r.filename = f /\ r.algorithm = a)

\* The per-level tuple a level record yields (level key, ratio, percentage,
\* compression time, decompression time, compressed size, memory).
TupleOf(r) ==
    <<level_int(r.level), r.metrics.compression.compressionRatio,
      FloatVal(r.metrics.compression.compressedPercentage),
      parse_time(r.metrics.compression.real),
      parse_time(r.metrics.decompression.real),
      r.metrics.compression.compressedSize, r.metrics.compression.max>>

EncounteredTuples(f, a) ==
    [i \in 1..Len(Encountered(f, a)) |-> TupleOf(Encountered(f, a)[i])]

\* The per-level tuples of a series, position by position.
Tuples(series) ==
    [i \in 1..Len(series.compression_levels) |->
        <<series.compression_levels[i], series.compression_ratio[i],
          series.compressed_percentage[i], series.compression_time[i],
          series.decompression_time[i], series.compressed_size[i],
          series.memory_usage[i]>>]

\* The index array of a stable ascending sort: equal keys keep their order.
StablePerm(keys) ==
    CHOOSE p \in SortingPerms(keys) :
        \A i, j \in 1..Len(keys) :
            (i < j /\ keys[p[i]] = keys[p[j]]) => p[i] < p[j]

\* The level keys walked for (f, a).
DistinctLevelKeys(f, a) ==
    {level_int(Encountered(f, a)[i].level) : i \in 1..Len(Encountered(f, a))}

\* compression.originalSize of the level records walked for (f, a).
SizesSeen(f, a) ==
    [i \in 1..Len(Encountered(f, a)) |->
        Encountered(f, a)[i].metrics.compression.originalSize]

\* Some level record reports another original size than the first level
\* record of its (file, algorithm).
MismatchSeen ==
    \E f \in Files, a \in Algorithms :
        \E i \in 1..Len(SizesSeen(f, a)) : SizesSeen(f, a)[i] # SizesSeen(f, a)[1]

(***************************************************************************)
(* Claims on normalization                                                 *)
(***************************************************************************)
\* C1: every series of the model that normalization returns (extract_data of
\* analyze_compression.py, process_data of visualize_json.py, extract_data of
\* visualize_sample.py) has its level keys in ascending order.
C1_ReturnedSeriesAscending ==
    /\ status = "returned" =>
         \A k \in SeriesKeys(results) :
             IsAscending(results[k[1]][k[2]].compression_levels)
    /\ vj_status = "returned" =>
         \A k \in SeriesKeys(vj_results) :
             IsAscending(vj_results[k[1]][k[2]].levels)
    /\ vs_status = "returned" =>
         \A k \in SeriesKeys(vs_results) :
             IsAscending(vs_results[k[1]][k[2]].compression_levels)

\* C2: the sort by level key is stable: the sorted series (analyze_compression
\* extract_data, visualize.py sort_data_by_level) is the encountered sequence
\* of per-level records reordered with equal keys kept in encounter order.
C2_SortIsStable ==
    /\ status = "returned" =>
         \A k \in SeriesKeys(results) :
             Tuples(results[k[1]][k[2]]) =
                 Reorder(EncounteredTuples(k[1], k[2]),
                         StablePerm([i \in 1..Len(EncounteredTuples(k[1], k[2]))
                                       |-> EncounteredTuples(k[1], k[2])[i][1]]))
    /\ v_status = "returned" =>
         \A k \in SeriesKeys(v_results) :
             Tuples(v_results[k[1]][k[2]]) =
                 Reorder(EncounteredTuples(k[1], k[2]),
                         StablePerm([i \in 1..Len(EncounteredTuples(k[1], k[2]))
                                       |-> EncounteredTuples(k[1], k[2])[i][1]]))

\* C3: a series returned by process_data (visualize_json.py) holds as many
\* per-level records as distinct level keys were encountered for its
\* (file, algorithm): none dropped, none merged.
C3_RecordCountIsDistinctKeys ==
    vj_status = "returned" =>
        \A k \in SeriesKeys(vj_results) :
            Len(vj_results[k[1]][k[2]].levels) =
                Cardinality(DistinctLevelKeys(k[1], k[2]))

\* C4: the original_size of a returned series is the compression.originalSize
\* of the first level record encountered for its (file, algorithm); no later
\* level or later occurrence of the file overwrites it.
C4_OriginalSizeIsFirstSeen ==
    /\ status = "returned" =>
         \A k \in SeriesKeys(results) :
             results[k[1]][k[2]].original_size = Some(SizesSeen(k[1], k[2])[1])
    /\ vj_status = "returned" =>
         \A k \in SeriesKeys(vj_results) :
             vj_results[k[1]][k[2]].original_size
                 = Some(SizesSeen(k[1], k[2])[1])

\* C5: when a later level record of a (file, algorithm) reports another
\* compression.originalSize than the first one, extract_data raises or flags
\* OriginalSizeMismatch.  The returned model holds nothing but the series
\* lists and original_size, so a mismatch that is raised or flagged is never
\* followed by a plain return.
C5_MismatchRaisedOrFlagged ==
    status = "returned" => ~MismatchSeen

(***************************************************************************)
(* The samples of one metric over all (algorithm, level) pairs of a file.  *)
(***************************************************************************)
Samples(algorithms, key) ==
    UNION {Range(algorithms[a][key]) : a \in DOMAIN algorithms}

Positive(S) == {x \in S : x > 0}

\* Some level of the series has this value of the metric and this level key.
AttainedAt(values, levels, v, l) ==
    \E i \in 1..Len(values) : values[i] = v /\ levels[i] = l

\* One algorithm has only zero durations and every other one has only
\* positive durations.
ZeroSeriesBesidePositive(algorithms, key) ==
    /\ \E a \in DOMAIN algorithms : Positive(Range(algorithms[a][key])) = {}
    /\ \E b \in DOMAIN algorithms : Positive(Range(algorithms[b][key])) # {}
    /\ \A b \in DOMAIN algorithms :
          \/ Positive(Range(algorithms[b][key])) = {}
          \/ Positive(Range(algorithms[b][key])) = Range(algorithms[b][key])

(***************************************************************************)
(* C6: for one file, fastest_compression and fastest_decompression are the *)
(* minimum, over all (algorithm, level) pairs of the file, of the          *)
(* durations strictly greater than zero: once generate_summary_table has   *)
(* run on a file that has a positive duration of each kind, the summary is *)
(* written and holds the two minima.                                       *)
(***************************************************************************)
C6_FastestIsMinPositive ==
    \A f \in DOMAIN results :
       (/\ summary_status # "pending"
        /\ Positive(Samples(results[f], "compression_time")) # {}
        /\ Positive(Samples(results[f], "decompression_time")) # {})
       => /\ summary_status = "written"
          /\ summary[f].best_comp_time
               = SetMin(Positive(Samples(results[f], "compression_time")))
          /\ summary[f].best_decomp_time
               = SetMin(Positive(Samples(results[f], "decompression_time")))

(***************************************************************************)
(* C7: a series whose durations are all 0.0 never determines the fastest   *)
(* compression or decompression of the file: beside an algorithm with      *)
(* positive durations, each written summary (generate_summary_table,       *)
(* create_overview_table, create_html_summary) holds the minimum of the    *)
(* positive durations, never 0.0.                                          *)
(***************************************************************************)
C7_ZeroSeriesNeverFastest ==
    /\ \A f \in DOMAIN results :
          summary_status = "written" =>
             /\ ZeroSeriesBesidePositive(results[f], "compression_time")
                => summary[f].best_comp_time
                     = SetMin(Positive(Samples(results[f], "compression_time")))
             /\ ZeroSeriesBesidePositive(results[f], "decompression_time")
                => summary[f].best_decomp_time
                     = SetMin(Positive(Samples(results[f],
                                               "decompression_time")))
    /\ \A f \in DOMAIN v_results :
          v_summary_status = "written" =>
             /\ ZeroSeriesBesidePositive(v_results[f], "compression_time")
                => v_summary[f].best_time
                     = SetMin(Positive(Samples(v_results[f],
                                               "compression_time")))
             /\ ZeroSeriesBesidePositive(v_results[f], "decompression_time")
                => v_summary[f].best_decompression
                     = SetMin(Positive(Samples(v_results[f],
                                               "decompression_time")))
    /\ \A f \in DOMAIN vj_results :
          vj_summary_status = "written" =>
             /\ ZeroSeriesBesidePositive(vj_results[f], "compression_times")
                => vj_summary[f].best_comp_time
                     = SetMin(Positive(Samples(vj_results[f],
                                               "compression_times")))
             /\ ZeroSeriesBesidePositive(vj_results[f], "decompression_times")
                => vj_summary[f].best_decomp_time
                     = SetMin(Positive(Samples(vj_results[f],
                                               "decompression_times")))

(***************************************************************************)
(* C8: when every algorithm of a file has only zero durations for a        *)
(* fastest-duration metric, generate_summary_table does not fail: the      *)
(* summary of the file is still written.                                   *)
(***************************************************************************)
C8_NoPositiveSampleIsNotAnError ==
    (/\ summary_status # "pending"
     /\ \E f \in DOMAIN results :
           \/ Positive(Samples(results[f], "compression_time")) = {}
           \/ Positive(Samples(results[f], "decompression_time")) = {})
    => summary_status = "written"

(***************************************************************************)
(* C9: for each algorithm the written summary reports the algorithm's own  *)
(* best value and the level where it is attained, from that algorithm's    *)
(* series alone: its maximum ratio, its minimum strictly positive          *)
(* compression and decompression time, its minimum memory                  *)
(* (generate_summary_table and create_html_summary).                       *)
(***************************************************************************)
C9_OwnBestPerAlgorithm ==
    /\ summary_status = "written" =>
          \A f \in DOMAIN results : \A a \in DOMAIN results[f] :
             LET s == results[f][a]
                 row == summary[f].rows[a]
             IN  /\ row.ratio_value = SeqMax(s.compression_ratio)
                 /\ AttainedAt(s.compression_ratio, s.compression_levels,
                               row.ratio_value, row.ratio_level)
                 /\ Positive(Range(s.compression_time)) # {} =>
                       /\ row.comp_time_value
                            = SetMin(Positive(Range(s.compression_time)))
                       /\ AttainedAt(s.compression_time, s.compression_levels,
                                     row.comp_time_value, row.comp_time_level)
                 /\ Positive(Range(s.decompression_time)) # {} =>
                       /\ row.decomp_time_value
                            = SetMin(Positive(Range(s.decompression_time)))
                       /\ AttainedAt(s.decompression_time, s.compression_levels,
                                     row.decomp_time_value,
                                     row.decomp_time_level)
                 /\ row.memory_value = SeqMin(s.memory_usage)
                 /\ AttainedAt(s.memory_usage, s.compression_levels,
                               row.memory_value, row.memory_level)
    /\ vj_summary_status = "written" =>
          \A f \in DOMAIN vj_results : \A a \in DOMAIN vj_results[f] :
             LET s == vj_results[f][a]
                 row == vj_summary[f].rows[a]
             IN  /\ row.ratio = SeqMax(s.ratios)
                 /\ AttainedAt(s.ratios, s.levels, row.ratio, row.ratio_level)
                 /\ Positive(Range(s.compression_times)) # {} =>
                       /\ row.comp_time
                            = SetMin(Positive(Range(s.compression_times)))
                       /\ AttainedAt(s.compression_times, s.levels,
                                     row.comp_time, row.comp_time_level)
                 /\ Positive(Range(s.decompression_times)) # {} =>
                       /\ row.decomp_time
                            = SetMin(Positive(Range(s.decompression_times)))
                       /\ AttainedAt(s.decompression_times, s.levels,
                                     row.decomp_time, row.decomp_time_level)
                 /\ row.memory = SeqMin(s.memory_usage)
                 /\ AttainedAt(s.memory_usage, s.levels, row.memory,
                               row.memory_level)

(***************************************************************************)
(* C10: for one file, the best_ratio of a written summary is the maximum   *)
(* compression_ratio over all (algorithm, level) pairs of the file         *)
(* (generate_summary_table and create_overview_table).                     *)
(***************************************************************************)
C10_BestRatioIsMaxOverAllPairs ==
    /\ summary_status = "written" =>
          \A f \in DOMAIN results :
             summary[f].best_ratio
               = SetMax(Samples(results[f], "compression_ratio"))
    /\ v_summary_status = "written" =>
          \A f \in DOMAIN v_results :
             v_summary[f].best_ratio
               = SetMax(Samples(v_results[f], "compression_ratio"))

\* Both summaries are written for a file of two algorithms whose highest
\* ratios differ, the higher one held by the algorithm whose lowest ratio is
\* not the file's best.
C10_Witness ==
    /\ summary_status = "written"
    /\ v_summary_status = "written"
    /\ "fileA" \in DOMAIN results
    /\ DOMAIN results["fileA"] = {"zstd", "gz"}
    /\ SeqMax(results["fileA"]["zstd"].compression_ratio)
         < SeqMax(results["fileA"]["gz"].compression_ratio)
    /\ summary["fileA"].best_ratio
         = SeqMax(results["fileA"]["gz"].compression_ratio)
    /\ v_summary["fileA"].best_ratio = summary["fileA"].best_ratio

(***************************************************************************)
(* C11: for one file, the lowest memory of a written summary               *)
(* (generate_summary_table) is the minimum peak memory over all            *)
(* (algorithm, level) pairs of the file; a zero takes part in the minimum  *)
(* like any other value.                                                   *)
(***************************************************************************)
C11_LowestMemoryIsMinOverAllPairs ==
    summary_status = "written" =>
       \A f \in DOMAIN results :
          summary[f].best_memory = SetMin(Samples(results[f], "memory_usage"))

\* The summary is written for a file of two algorithms, one with peak memory
\* 0 and the other with positive peak memory only: the lowest memory is 0.
C11_Witness ==
    /\ summary_status = "written"
    /\ "fileA" \in DOMAIN results
    /\ DOMAIN results["fileA"] = {"zstd", "gz"}
    /\ 0 \in Range(results["fileA"]["gz"].memory_usage)
    /\ 0 \notin Range(results["fileA"]["zstd"].memory_usage)
    /\ summary["fileA"].best_memory = 0

\* The algorithm's own best values, and the file's, as the flags compare them:
\* highest ratio, lowest strictly positive time, lowest memory.
OwnBestEqualsFileBest(values, all, highest, positive) ==
    IF highest THEN SetMax(values) = SetMax(all)
    ELSE IF positive THEN SetMin(Positive(values)) = SetMin(Positive(all))
    ELSE SetMin(values) = SetMin(all)

(***************************************************************************)
(* C12: in a written summary (generate_summary_table,                      *)
(* create_overview_table) an algorithm is flagged as best-overall for a    *)
(* metric exactly when its own best value of the metric equals the file's  *)
(* best value: all the algorithms that tie at the file's best are flagged  *)
(* and no other one is.                                                    *)
(***************************************************************************)
C12_FlaggedIffOwnBestIsFileBest ==
    /\ summary_status = "written" =>
          \A f \in DOMAIN results : \A a \in DOMAIN results[f] :
             LET s == results[f][a]
                 row == summary[f].rows[a]
             IN  /\ row.ratio_class
                      <=> OwnBestEqualsFileBest(
                              Range(s.compression_ratio),
                              Samples(results[f], "compression_ratio"),
                              TRUE, FALSE)
                 /\ Positive(Range(s.compression_time)) # {} =>
                       (row.comp_time_class
                          <=> OwnBestEqualsFileBest(
                                  Range(s.compression_time),
                                  Samples(results[f], "compression_time"),
                                  FALSE, TRUE))
                 /\ Positive(Range(s.decompression_time)) # {} =>
                       (row.decomp_time_class
                          <=> OwnBestEqualsFileBest(
                                  Range(s.decompression_time),
                                  Samples(results[f], "decompression_time"),
                                  FALSE, TRUE))
                 /\ row.memory_class
                      <=> OwnBestEqualsFileBest(
                              Range(s.memory_usage),
                              Samples(results[f], "memory_usage"),
                              FALSE, FALSE)
    /\ v_summary_status = "written" =>
          \A f \in DOMAIN v_results : \A a \in DOMAIN v_results[f] :
             LET s == v_results[f][a]
                 row == v_summary[f].rows[a]
             IN  /\ row.ratio_class
                      <=> OwnBestEqualsFileBest(
                              Range(s.compression_ratio),
                              Samples(v_results[f], "compression_ratio"),
                              TRUE, FALSE)
                 /\ Positive(Range(s.compression_time)) # {} =>
                       (row.c_time_class
                          <=> OwnBestEqualsFileBest(
                                  Range(s.compression_time),
                                  Samples(v_results[f], "compression_time"),
                                  FALSE, TRUE))
                 /\ Positive(Range(s.decompression_time)) # {} =>
                       (row.d_time_class
                          <=> OwnBestEqualsFileBest(
                                  Range(s.decompression_time),
                                  Samples(v_results[f], "decompression_time"),
                                  FALSE, TRUE))
                 /\ row.memory_class
                      <=> OwnBestEqualsFileBest(
                              Range(s.memory_usage),
                              Samples(v_results[f], "memory_usage"),
                              FALSE, FALSE)

\* Every field of the duration string is a number.
Numeric(parts) == \A i \in 1..Len(parts) : parts[i].value # None

(***************************************************************************)
(* C13: parse_time agrees with the reference duration function: empty or   *)
(* null input gives 0.0, M:S gives 60*M + S, H:M:S gives                   *)
(* 3600*H + 60*M + S, and a string of four or more parts gives 0.0 without *)
(* raising ("0:00" -> 0, "1:02" -> 62, "1:02:03" -> 3723).                 *)
(***************************************************************************)
C13_ParseTimeAgreesWithReference ==
    parse_status # "pending" =>
       LET p == time_parts
       IN  /\ Len(p) = 0 => parse_status = "returned" /\ seconds = Some(0)
           /\ (Len(p) = 2 /\ Numeric(p)) =>
                 /\ parse_status = "returned"
                 /\ seconds = Some(60 * p[1].value[1] + p[2].value[1])
           /\ (Len(p) = 3 /\ Numeric(p)) =>
                 /\ parse_status = "returned"
                 /\ seconds = Some(3600 * p[1].value[1] + 60 * p[2].value[1]
                                     + p[3].value[1])
           /\ Len(p) >= 4 => parse_status = "returned" /\ seconds = Some(0)

\* parse_time("1:02:03") has returned 3723.
C13_Witness ==
    /\ parse_status = "returned"
    /\ time_str = <<"1", ":", "0", "2", ":", "0", "3">>
    /\ seconds = Some(3723 * Milli)

(***************************************************************************)
(* C14: a duration string with a single part (seconds only, no colon, such *)
(* as "5" or "2.5") is converted to that number of seconds.                *)
(***************************************************************************)
C14_SinglePartIsSeconds ==
    (parse_status # "pending" /\ Len(time_parts) = 1 /\ Numeric(time_parts))
    => /\ parse_status = "returned"
       /\ seconds = time_parts[1].value

\* The number a level identifier denotes, in thousandths (None for "x").
RefLevelKey(level) ==
    CASE level = <<"1">> -> Some(1000)
      [] level = <<"3">> -> Some(3000)
      [] level = <<"1", ".", "5">> -> Some(1500)
      [] OTHER -> None

\* Extraction with level conversion as claimed: it does not fail with
\* ValueError while every identifier walked is a number, and when it has
\* returned every identifier was a number and the keys of each series are the
\* numbers its identifiers denote.
LevelsConverted(st, res) ==
    /\ (\A i \in 1..Len(json_data) : RefLevelKey(json_data[i].level) # None)
       => st # "ValueError"
    /\ st \in {"extracted", "returned"} =>
          /\ \A i \in 1..Len(json_data) :
                RefLevelKey(json_data[i].level) # None
          /\ \A f \in DOMAIN res : \A a \in DOMAIN res[f] :
                Range(res[f][a].compression_levels)
                  = {RefLevelKey(r.level)[1] : r \in Range(Encountered(f, a))}

(***************************************************************************)
(* C15: a level identifier is converted to its integer value when it       *)
(* parses as an integer, otherwise to its decimal value when it parses as  *)
(* a decimal, and otherwise normalization fails with an error; no          *)
(* identifier is mapped to a default key, and a decimal identifier does    *)
(* not abort normalization (extract_data of analyze_compression.py and of  *)
(* visualize.py).                                                          *)
(***************************************************************************)
C15_LevelIdentifierConversion ==
    /\ LevelsConverted(status, results)
    /\ LevelsConverted(v_status, v_results)

\* The quotient q is ratio / (time + 0.001), ratio and time in thousandths:
\* its denominator is not zero and q = (ratio / 1000) / ((time + 1) / 1000).
IsEfficiency(q, ratio, time) ==
    /\ q[2] # 0
    /\ q[1] * (time + 1) = ratio * q[2]
    /\ time = 0 => q[1] = ratio * q[2]

(***************************************************************************)
(* C18: efficiency is compression_ratio / (compression_time + 0.001) for   *)
(* every per-level record; for a compression time of exactly 0 it is       *)
(* compression_ratio / 0.001 (4000 for ratio 4.0) and computing it raises  *)
(* no division-by-zero fault (plot_compression_efficiency,                 *)
(* plot_efficiency_comparison).                                            *)
(***************************************************************************)
C18_EfficiencyWithOffset ==
    /\ efficiency_status # "pending" =>
          /\ efficiency_status = "plotted"
          /\ \A f \in DOMAIN results : \A a \in DOMAIN results[f] :
                \A i \in 1..Len(results[f][a].compression_levels) :
                   IsEfficiency(efficiency[f][a][i],
                                results[f][a].compression_ratio[i],
                                results[f][a].compression_time[i])
    /\ vj_efficiency_status # "pending" =>
          /\ vj_efficiency_status = "plotted"
          /\ \A f \in DOMAIN vj_results : \A a \in DOMAIN vj_results[f] :
                \A i \in 1..Len(vj_results[f][a].levels) :
                   IsEfficiency(vj_efficiency[f][a][i],
                                vj_results[f][a].ratios[i],
                                vj_results[f][a].compression_times[i])

\* Both plots have computed the efficiency of a record with ratio 4.0 and
\* compression time 0: it is 4000.
C18_Witness ==
    /\ efficiency_status = "plotted"
    /\ vj_efficiency_status = "plotted"
    /\ "fileA" \in DOMAIN results
    /\ results["fileA"]["zstd"].compression_ratio[1] = 4000
    /\ results["fileA"]["zstd"].compression_time[1] = 0
    /\ efficiency["fileA"]["zstd"][1] = <<4000, 1>>
    /\ vj_efficiency["fileA"]["zstd"][1] = <<4000, 1>>

(***************************************************************************)
(* C19: for every per-level record shown, percent_saved is 100 minus the   *)
(* record's compressed_percentage (70 for compressed_percentage 30): the   *)
(* detailed rows of generate_summary_table and the rows of                 *)
(* create_overview_table.                                                  *)
(***************************************************************************)
C19_PercentSavedIsComplement ==
    /\ summary_status = "written" =>
          \A f \in DOMAIN results : \A a \in DOMAIN results[f] :
             \A i \in 1..Len(results[f][a].compression_levels) :
                summary[f].details[a][i].percent
                  = 100000 - results[f][a].compressed_percentage[i]
    /\ v_summary_status = "written" =>
          \A f \in DOMAIN v_results : \A a \in DOMAIN v_results[f] :
             \E i \in 1..Len(v_results[f][a].compression_levels) :
                /\ v_results[f][a].compression_levels[i]
                     = v_summary[f].rows[a].level
                /\ v_summary[f].rows[a].perc
                     = 100000 - v_results[f][a].compressed_percentage[i]

\* Both tables are written and show 70 for a record with compressed
\* percentage 30.
C19_Witness ==
    /\ summary_status = "written"
    /\ v_summary_status = "written"
    /\ "fileA" \in DOMAIN results
    /\ results["fileA"]["zstd"].compressed_percentage[1] = 30000
    /\ summary["fileA"].details["zstd"][1].percent = 70000
    /\ v_summary["fileA"].rows["zstd"].level = 1000
    /\ v_summary["fileA"].rows["zstd"].perc = 70000

\* The level records of the scenario document: levels "1" and "3" of
\* (fileA, zstd) in the first entry, in either order of the mapping.
ScenarioWalked ==
    /\ pc = "returned"
    /\ Len(json_data) = 2
    /\ \A i \in 1..2 :
          /\ json_data[i].entry = 1
          /\ json_data[i].filename = "fileA"
          /\ json_data[i].algorithm = "zstd"
          /\ json_data[i].metrics.compression.originalSize = 1000
    /\ \E i, j \in 1..2 :
          /\ json_data[i].level = <<"1">>
          /\ json_data[i].metrics.compression.compressionRatio = 1670
          /\ json_data[i].metrics.compression.real = <<"0", ":", "0", "1">>
          /\ json_data[j].level = <<"3">>
          /\ json_data[j].metrics.compression.compressionRatio = 2500
          /\ json_data[j].metrics.compression.real = <<"0", ":", "0", "2">>

(***************************************************************************)
(* C20: for the one-file, one-algorithm input with levels "1" (ratio 1.67, *)
(* time "0:01") and "3" (ratio 2.5, time "0:02") and originalSize 1000 at  *)
(* both levels, extract_data yields one series for (fileA, zstd) with      *)
(* exactly two records in the order level 1 then level 3 and               *)
(* original_size 1000; the efficiency of level 3 is 2.5/2.001; the         *)
(* summary holds best ratio 2.5, attained at level 3.                      *)
(***************************************************************************)
C20_EndToEndScenario ==
    (ScenarioWalked /\ status = "returned") =>
       /\ DOMAIN results = {"fileA"}
       /\ DOMAIN results["fileA"] = {"zstd"}
       /\ results["fileA"]["zstd"].compression_levels = <<1000, 3000>>
       /\ results["fileA"]["zstd"].compression_ratio = <<1670, 2500>>
       /\ results["fileA"]["zstd"].compression_time = <<1000, 2000>>
       /\ results["fileA"]["zstd"].original_size = Some(1000)
       /\ efficiency_status # "pending" =>
             /\ efficiency_status = "plotted"
             /\ efficiency["fileA"]["zstd"][2][2] # 0
             /\ efficiency["fileA"]["zstd"][2][1] * 2001
                  = 2500 * efficiency["fileA"]["zstd"][2][2]
       /\ summary_status # "pending" =>
             /\ summary_status = "written"
             /\ summary["fileA"].best_ratio = 2500
             /\ summary["fileA"].rows["zstd"].ratio_value = 2500
             /\ summary["fileA"].rows["zstd"].ratio_level = 3000

\* The scenario document has been walked with level "3" listed before level
\* "1", and the summary is written.
C20_Witness ==
    /\ ScenarioWalked
    /\ json_data[1].level = <<"3">>
    /\ status = "returned"
    /\ summary_status = "written"

(***************************************************************************)
(* Missing fields                                                          *)
(***************************************************************************)
\* The fields of a level record the extractions read in the loop over
\* levels (analyze_compression.py lines 80-85): <<sub, field>>.
RequiredFields ==
    {<<"compression", "compressionRatio">>,
     <<"compression", "compressedPercentage">>,
     <<"compression", "real">>, <<"decompression", "real">>,
     <<"compression", "compressedSize">>, <<"compression", "max">>}

\* The names (sub-record or field) a level record lacks.
Lacking(metrics) ==
    {sf[1] : sf \in {x \in RequiredFields : x[1] \notin DOMAIN metrics}}
    \cup {sf[2] : sf \in {x \in RequiredFields :
                              /\ x[1] \in DOMAIN metrics
                              /\ x[2] \notin DOMAIN metrics[x[1]]}}

\* Some level record walked lacks a required field.
FieldMissing == \E i \in 1..Len(json_data) : Lacking(json_data[i].metrics) # {}

\* C17: a normalization failure caused by a missing required field reports
\* the name of the missing field together with the file, the algorithm and
\* the level at which it occurred: the args of the KeyError that ends
\* extract_data hold a field the record lacks, its file, its algorithm and
\* its level.
C17_MissingFieldReportsCoordinates ==
    status = "KeyError" =>
        \E i \in 1..Len(json_data) :
            /\ Len(exc_args) >= 4
            /\ exc_args[1] \in Lacking(json_data[i].metrics)
            /\ \E j, k \in 2..Len(exc_args) :
                  /\ exc_args[j] = json_data[i].filename
                  /\ exc_args[k] = json_data[i].algorithm

\* C16: when a level record of the input lacks a required field, no script
\* produces output: no efficiency chart, no summary, overview or HTML
\* table, no Markdown report.
C16_MissingFieldAbortsBeforeOutput ==
    FieldMissing =>
        /\ efficiency_status = "pending" /\ summary_status = "pending"
        /\ v_summary_status = "pending"
        /\ vj_efficiency_status = "pending" /\ vj_summary_status = "pending"
        /\ md_status # "written"

(***************************************************************************)
(* Shape of a series                                                       *)
(***************************************************************************)
\* The per-level lists of a series of extract_data.
Lists(series) ==
    {series.compression_levels, series.compression_ratio,
     series.compressed_percentage, series.compression_time,
     series.decompression_time, series.compressed_size, series.memory_usage}

\* The per-level lists of a series of process_data (visualize_json.py).
ListsJson(series) ==
    {series.levels, series.ratios, series.compressed_sizes,
     series.compression_times, series.decompression_times,
     series.memory_usage}

\* The script has not raised: it is between two level records, or it has
\* sorted and returned.
Alive(st) == st \in {"running", "extracted", "returned"}

\* C21: wherever a series is observable between two level records (after a
\* level record has been appended, after the sort), all its per-level lists
\* have the same length, in each of the four extractions.
C21_ListsHaveEqualLength ==
    /\ Alive(status) =>
         \A k \in SeriesKeys(results) :
             \A x, y \in Lists(results[k[1]][k[2]]) : Len(x) = Len(y)
    /\ Alive(v_status) =>
         \A k \in SeriesKeys(v_results) :
             \A x, y \in Lists(v_results[k[1]][k[2]]) : Len(x) = Len(y)
    /\ Alive(vs_status) =>
         \A k \in SeriesKeys(vs_results) :
             \A x, y \in Lists(vs_results[k[1]][k[2]]) : Len(x) = Len(y)
    /\ Alive(vj_status) =>
         \A k \in SeriesKeys(vj_results) :
             \A x, y \in ListsJson(vj_results[k[1]][k[2]]) : Len(x) = Len(y)

\* Two level records appended to one series and the series sorted, in
\* analyze_compression.py and in visualize.py.
C21_Witness ==
    /\ status = "returned" /\ v_status = "returned"
    /\ \E k \in SeriesKeys(results) :
          /\ Len(results[k[1]][k[2]].memory_usage) = 2
          /\ Len(v_results[k[1]][k[2]].compression_levels) = 2

(***************************************************************************)
(* When a series is sorted                                                 *)
(***************************************************************************)
\* C22: each series is sorted exactly once, after every level record of its
\* (file, algorithm) has been appended: in analyze_compression.py and in
\* visualize_json.py no series is sorted twice, no level record of a
\* (file, algorithm) is appended once its series has been sorted, and every
\* series of a returned model has been sorted.
C22_SortedOnceAfterAllAppends ==
    /\ \A id \in DOMAIN sorts :
          sorts[id].count = 1 /\ ~sorts[id].appended_after
    /\ status = "returned" =>
          \A k \in SeriesKeys(results) :
              <<"analyze_compression", k[1], k[2]>> \in DOMAIN sorts
    /\ vj_status = "returned" =>
          \A k \in SeriesKeys(vj_results) :
              <<"visualize_json", k[1], k[2]>> \in DOMAIN sorts

(***************************************************************************)
(* A file name in several top-level entries                                *)
(***************************************************************************)
\* The file f has level records in more than one top-level entry.
Recurs(f) ==
    \E i, j \in 1..Len(json_data) :
        /\ json_data[i].filename = f /\ json_data[j].filename = f
        /\ json_data[i].entry # json_data[j].entry

\* The level keys of the records walked for (f, a), in document order.
EncounteredLevels(f, a) ==
    [i \in 1..Len(Encountered(f, a)) |-> level_int(Encountered(f, a)[i].level)]

\* C23: when a file name occurs in more than one top-level entry, the series
\* of each (file, algorithm) is extended: the returned series
\* (analyze_compression.py extract_data, visualize_json.py process_data)
\* holds the level records of all occurrences, none of an earlier occurrence
\* is discarded.
C23_RecurringFileExtendsSeries ==
    /\ status = "returned" =>
         \A k \in SeriesKeys(results) :
             Recurs(k[1]) =>
                 /\ Len(results[k[1]][k[2]].compression_levels) =
                        Len(Encountered(k[1], k[2]))
                 /\ Range(EncounteredLevels(k[1], k[2])) \subseteq
                        Range(results[k[1]][k[2]].compression_levels)
    /\ vj_status = "returned" =>
         \A k \in SeriesKeys(vj_results) :
             Recurs(k[1]) =>
                 /\ Len(vj_results[k[1]][k[2]].levels) =
                        Len(Encountered(k[1], k[2]))
                 /\ Range(EncounteredLevels(k[1], k[2])) \subseteq
                        Range(vj_results[k[1]][k[2]].levels)

(***************************************************************************)
(* The model after normalization                                           *)
(***************************************************************************)
\* C24: once normalization has returned the model, no later step (efficiency
\* computation, best-value selection, table or chart generation) changes a
\* list or the original_size of a series: every step taken from a state in
\* which a script holds its returned model leaves that model as it is.
C24_ModelReadOnlyAfterReturn ==
    [][/\ status = "returned" => results' = results
       /\ v_status = "returned" => v_results' = v_results
       /\ vj_status = "returned" => vj_results' = vj_results
       /\ vs_status = "returned" => vs_results' = vs_results]_vars

\* The charts and the summary of analyze_compression.py are out, and
\* visualize_sample.py has plotted a series in another order than the model
\* holds it.
C24_Witness ==
    /\ efficiency_status = "plotted"
    /\ summary_status = "written"
    /\ vs_plot_status = "plotted"
    /\ \E k \in SeriesKeys(vs_results) :
          vs_plot[k[1]][k[2]].levels #
              vs_results[k[1]][k[2]].compression_levels

(***************************************************************************)
(* Shape of a top-level entry                                              *)
(***************************************************************************)
\* C25: an input with a top-level entry that has no key (no file name) is
\* rejected with an error instead of being normalized: when the walk leaves
\* an entry in which it has met no file name, extract_data of
\* analyze_compression.py has raised.
C25_EntryWithoutKeyRejected ==
    [][(pc = "file_data" /\ pc' # "algorithms") =>
           status' \notin {"running", "returned"}]_vars

(***************************************************************************)
(* The sort keeps the level records whole                                  *)
(***************************************************************************)
\* The per-level tuple a level record yields in visualize_json.py.
TupleOfJson(r) ==
    <<IntVal(r.level), r.metrics.compression.compressionRatio,
      r.metrics.compression.compressedSize,
      parse_time(r.metrics.compression.real),
      parse_time(r.metrics.decompression.real), r.metrics.compression.max>>

\* The per-level tuples of a series of visualize_json.py.
TuplesJson(series) ==
    [i \in 1..Len(series.levels) |->
        <<series.levels[i], series.ratios[i], series.compressed_sizes[i],
          series.compression_times[i], series.decompression_times[i],
          series.memory_usage[i]>>]

\* The multiset of the elements of a sequence.
BagOf(seq) ==
    [x \in Range(seq) |-> Cardinality({i \in 1..Len(seq) : seq[i] = x})]

\* Every tuple of every series is the tuple of a level record walked for its
\* (file, algorithm).
TuplesFromInput ==
    /\ Alive(status) =>
         \A k \in SeriesKeys(results) :
             Range(Tuples(results[k[1]][k[2]])) \subseteq
                 Range(EncounteredTuples(k[1], k[2]))
    /\ Alive(v_status) =>
         \A k \in SeriesKeys(v_results) :
             Range(Tuples(v_results[k[1]][k[2]])) \subseteq
                 Range(EncounteredTuples(k[1], k[2]))
    /\ Alive(vj_status) =>
         \A k \in SeriesKeys(vj_results) :
             Range(TuplesJson(vj_results[k[1]][k[2]])) \subseteq
                 {TupleOfJson(r) : r \in Range(Encountered(k[1], k[2]))}

\* C26: sorting a series applies one index permutation to all its lists:
\* after the sort (analyze_compression.py lines 87-96, sort_data_by_level of
\* visualize.py, visualize_json.py lines 72-76) the tuple at every position
\* is the tuple of one level record of the input, and the step that sorts
\* leaves the multiset of tuples of every series as it was.
C26_SortPermutesWholeRecords ==
    /\ []TuplesFromInput
    /\ [][/\ (status = "running" /\ status' = "returned") =>
               \A k \in SeriesKeys(results) :
                   BagOf(Tuples(results'[k[1]][k[2]])) =
                       BagOf(Tuples(results[k[1]][k[2]]))
          /\ (v_status = "extracted" /\ v_status' = "returned") =>
               \A k \in SeriesKeys(v_results) :
                   BagOf(Tuples(v_results'[k[1]][k[2]])) =
                       BagOf(Tuples(v_results[k[1]][k[2]]))
          /\ (pc = "levels" /\ pc' = "algorithms" /\ vj_status = "running") =>
               \A k \in SeriesKeys(vj_results) :
                   BagOf(TuplesJson(vj_results'[k[1]][k[2]])) =
                       BagOf(TuplesJson(vj_results[k[1]][k[2]]))]_vars

\* The three sorts have reordered a series of two level records.
C26_Witness ==
    /\ status = "returned" /\ v_status = "returned" /\ vj_status = "returned"
    /\ \E k \in SeriesKeys(results) :
          /\ Len(EncounteredTuples(k[1], k[2])) = 2
          /\ Tuples(results[k[1]][k[2]]) # EncounteredTuples(k[1], k[2])
          /\ Tuples(v_results[k[1]][k[2]]) # EncounteredTuples(k[1], k[2])
          /\ Len(vj_results[k[1]][k[2]].levels) = 2
          /\ EncounteredTuples(k[1], k[2])[1][2] #
                 EncounteredTuples(k[1], k[2])[2][2]

(***************************************************************************)
(* Sign of a duration                                                      *)
(***************************************************************************)
\* C27: for every duration string that parse_time converts without raising,
\* the result is greater than or equal to 0, so that the efficiency
\* denominator compression_time + 0.001 is positive and the efficiency of a
\* record with that compression time is computed without ZeroDivisionError.
C27_DurationsAreNonNegative ==
    parse_status = "returned" =>
        /\ seconds[1] >= 0
        /\ seconds[1] + Epsilon > 0
        /\ ~efficiency_raises(<<2500>>, <<seconds[1]>>)

(***************************************************************************)
(* Empty 'levels' mappings                                                 *)
(***************************************************************************)
\* The step walks an algorithm whose 'levels' mapping is empty.
EmptyMappingWalked ==
    pc = "algorithms" /\ pc' = "algorithms" /\ algorithm_keys' # algorithm_keys

LevelsAttaining(values, levels, v) ==
    {levels[i] : i \in {j \in 1..Len(values) : values[j] = v}}

\* C29: the level reported beside the value of an algorithm's row (highest
\* ratio, lowest compression time, lowest decompression time, lowest
\* memory) is the smallest level key at which the series holds that value,
\* in generate_summary_table (analyze_compression.py) and in
\* create_html_summary (visualize_json.py).
C29_ReportedLevelIsSmallest ==
    /\ summary_status = "written" =>
         \A f \in DOMAIN summary : \A a \in DOMAIN summary[f].rows :
             LET row == summary[f].rows[a]
                 m == results[f][a]
                 l == m.compression_levels
             IN  /\ row.ratio_level = SetMin(LevelsAttaining(
                        m.compression_ratio, l, row.ratio_value))
                 /\ row.comp_time_level = SetMin(LevelsAttaining(
                        m.compression_time, l, row.comp_time_value))
                 /\ row.decomp_time_level = SetMin(LevelsAttaining(
                        m.decompression_time, l, row.decomp_time_value))
                 /\ row.memory_level = SetMin(LevelsAttaining(
                        m.memory_usage, l, row.memory_value))
    /\ vj_summary_status = "written" =>
         \A f \in DOMAIN vj_summary : \A a \in DOMAIN vj_summary[f].rows :
             LET row == vj_summary[f].rows[a]
                 m == vj_results[f][a]
             IN  /\ row.ratio_level = SetMin(LevelsAttaining(
                        m.ratios, m.levels, row.ratio))
                 /\ row.comp_time_level = SetMin(LevelsAttaining(
                        m.compression_times, m.levels, row.comp_time))
                 /\ row.decomp_time_level = SetMin(LevelsAttaining(
                        m.decompression_times, m.levels, row.decomp_time))
                 /\ row.memory_level = SetMin(LevelsAttaining(
                        m.memory_usage, m.levels, row.memory))

\* Both summaries are written for an algorithm that holds its highest ratio
\* and its lowest compression time at two levels.
C29_Witness ==
    /\ summary_status = "written" /\ vj_summary_status = "written"
    /\ \E f \in DOMAIN summary : \E a \in DOMAIN summary[f].rows :
          /\ Cardinality(LevelsAttaining(results[f][a].compression_ratio,
                                         results[f][a].compression_levels,
                                         summary[f].rows[a].ratio_value)) = 2
          /\ Cardinality(LevelsAttaining(vj_results[f][a].compression_times,
                                         vj_results[f][a].levels,
                                         vj_summary[f].rows[a].comp_time)) = 2

(***************************************************************************)
(* analyze_compression.py and visualize.py on the same document            *)
(***************************************************************************)
\* Every level identifier walked is an integer string.
IntegerLevels == \A i \in 1..Len(json_data) : IntOk(json_data[i].level)

\* Both runs are over: each has returned its sorted model, or has raised.
BothOver == pc = "returned" /\ v_status # "extracted"

\* C30: on a document whose level identifiers are all integer strings,
\* extract_data of analyze_compression.py and extract_data followed by
\* sort_data_by_level of visualize.py return the same model (files,
\* algorithms, original_size, and every per-level list position by
\* position); one returns exactly when the other does.
C30_SameModelAsVisualize ==
    (IntegerLevels /\ BothOver) =>
        /\ status = "returned" <=> v_status = "returned"
        /\ status = "returned" => results = v_results

\* Both have returned the model of a document that holds level "3" before
\* level "1" in one mapping.
C30_Witness ==
    /\ IntegerLevels /\ BothOver
    /\ status = "returned" /\ v_status = "returned"
    /\ Len(json_data) = 2
    /\ json_data[1].level = <<"3">> /\ json_data[2].level = <<"1">>
    /\ json_data[1].entry = json_data[2].entry
    /\ json_data[1].algorithm = json_data[2].algorithm
    /\ results = v_results

====
